---- MODULE Spec2Model ----
(***************************************************************************)
(* Model of the MLR_Modem serial driver (src/src/MLR_Modem.cpp, .h):       *)
(* the byte-level frame parser m_Parse with its one-byte lookahead, the    *)
(* bounded wait m_WaitCmdResponse, the public request operations and the   *)
(* periodic Work() with the asynchronous dispatcher.                       *)
(*                                                                         *)
(* Bytes are the numbers 0..255 (ASCII).  Arrays are functions over        *)
(* 0..size-1.  The transport's receive side is the sequence `uart`         *)
(* (bytes available to read) fed from `wire` (bytes the modem will still   *)
(* send).                                                                  *)
(***************************************************************************)
EXTENDS Integers, Sequences, FiniteSets, TLC

VARIABLES
    m_parserState,          \* MLR_ModemParserState
    m_oneByteBuf,           \* -1, or the byte handed back by m_UnreadByte
    m_rxIdx,                \* index into m_rxMessage / m_drMessage
    m_rxMessage,            \* uint8_t[32]
    m_drMessagePresent,     \* bool
    m_drMessageLen,         \* uint8_t
    m_drMessage,            \* uint8_t[300]
    uart,                   \* bytes available on the transport (m_pUart)
    wire,                   \* bytes the modem has yet to deliver
    script,                 \* the input scenario chosen initially (constant)
    lastRet,                \* what the most recent m_Parse call returned
    events,                 \* the non-Parsing results of m_Parse, in order
    rxHigh,                 \* highest index written into m_rxMessage so far
    drHigh,                 \* highest index written into m_drMessage so far
    unreadOver,             \* m_UnreadByte was called over a buffered byte
    m_asyncExpectedResponse,\* MLR_Modem_Response: the pending expectation
    m_mode,                 \* cached MLR_ModemMode (0 FskBin .. 3 LoRaCmd)
    m_pCallback,            \* TRUE iff a callback is registered
    bTimeout,               \* bool
    timeOut,                \* uint32_t, duration of the running timeout
    elapsed,                \* millis() - startTime
    tx,                     \* every byte written to the transport, in order
    call,                   \* the synchronous operation in progress
    ret,                    \* what the operation returning in the last step returned
    sent,                   \* data frames the modem has sent unasked
    cbLog,                  \* the callback invocations, in order
    lastWait,               \* how the most recent m_WaitCmdResponse ended
    calls                   \* number of requests written so far

parserVars == <<m_parserState, m_oneByteBuf, m_rxIdx, m_rxMessage,
                m_drMessagePresent, m_drMessageLen, m_drMessage, rxHigh, drHigh,
                unreadOver>>
envVars == <<uart, wire, script>>
histVars == <<lastRet, events>>
driverVars == <<m_asyncExpectedResponse, m_mode, m_pCallback, bTimeout,
                timeOut, elapsed, tx, call, ret, cbLog, lastWait, calls, sent>>
vars == <<parserVars, envVars, histVars, driverVars>>

---------------------------------------------------------------------------
(* Character codes used by the protocol.                                   *)
STAR == 42
CR == 13
LF == 10
EQ == 61
ChD == 68
ChR == 82

(* sizeof(m_rxMessage), sizeof(m_drMessage)                                *)
RxSize == 32
DrSize == 300

(* <ctype.h> in the "C" locale                                             *)
isupper(b) == b \in 65..90
isdigit(b) == b \in 48..57
isxdigit(b) == b \in (48..57) \cup (65..70) \cup (97..102)

Max(a, b) == IF a >= b THEN a ELSE b

(* Mutant of HexNibble: the letters are decoded like the digits.           *)
HexNibble_DigitsOnly(b) == b - 48

(* One hex digit as s_ParseHex decodes it (the byte passed isxdigit).      *)
HexNibble(b) ==
    IF b >= 97 THEN b - 97 + 10
    ELSE IF b >= 65 THEN b - 65 + 10
    ELSE b - 48

(* s_ParseHex over the bytes data (a sequence): the uint32 accumulator is  *)
(* shifted before each digit is looked at; the first non-hex byte stops it.*)
(* Every caller passes 2 or 4 digits, so the accumulator stays below 2^16  *)
(* and never wraps.                                                        *)
RECURSIVE ParseHexFrom(_, _, _)
ParseHexFrom(data, i, acc) ==
    IF i > Len(data) THEN [ok |-> TRUE, value |-> acc]
    ELSE LET sh == acc * 16
         IN IF isxdigit(data[i])
            THEN ParseHexFrom(data, i + 1, sh + HexNibble(data[i]))
            ELSE [ok |-> FALSE, value |-> sh]

s_ParseHex(data) == ParseHexFrom(data, 1, 0)

---------------------------------------------------------------------------
(* The parser works on a record p of the fields it reads and writes.       *)
PState ==
    [st |-> m_parserState, buf |-> m_oneByteBuf, idx |-> m_rxIdx,
     rx |-> m_rxMessage, drPresent |-> m_drMessagePresent,
     drLen |-> m_drMessageLen, dr |-> m_drMessage, uart |-> uart,
     rxHigh |-> rxHigh, drHigh |-> drHigh, unreadOver |-> unreadOver]

Commit(p) ==
    /\ m_parserState' = p.st
    /\ m_oneByteBuf' = p.buf
    /\ m_rxIdx' = p.idx
    /\ m_rxMessage' = p.rx
    /\ m_drMessagePresent' = p.drPresent
    /\ m_drMessageLen' = p.drLen
    /\ m_drMessage' = p.dr
    /\ uart' = p.uart
    /\ rxHigh' = p.rxHigh
    /\ drHigh' = p.drHigh
    /\ unreadOver' = p.unreadOver

(* m_rxMessage[i] = b and m_drMessage[i] = b.  A store outside the array   *)
(* is recorded in rxHigh / drHigh and leaves the array as it is.           *)
RxPut(p, i, b) ==
    [p EXCEPT !.rx = IF i \in DOMAIN p.rx THEN [p.rx EXCEPT ![i] = b] ELSE p.rx,
              !.rxHigh = Max(p.rxHigh, i)]

DrPut(p, i, b) ==
    [p EXCEPT !.dr = IF i \in DOMAIN p.dr THEN [p.dr EXCEPT ![i] = b] ELSE p.dr,
              !.drHigh = Max(p.drHigh, i)]

(* m_ReadByte: the lookahead byte if there is one, else one transport      *)
(* byte, else 0.                                                           *)
m_ReadByte(p) ==
    IF p.buf # -1
    THEN [b |-> p.buf % 256, p |-> [p EXCEPT !.buf = -1]]
    ELSE IF Len(p.uart) > 0
         THEN [b |-> Head(p.uart), p |-> [p EXCEPT !.uart = Tail(p.uart)]]
         ELSE [b |-> 0, p |-> p]

(* m_UnreadByte: m_oneByteBuf = unreadByte, whatever was buffered before.  *)
m_UnreadByte(p, b) ==
    [p EXCEPT !.buf = b, !.unreadOver = @ \/ p.buf # -1]

m_ClearUnreadByte(p) == [p EXCEPT !.buf = -1]

m_ResetParser(p) == m_ClearUnreadByte([p EXCEPT !.st = "Start"])

(* The loop of m_FlushGarbage: read while bytes are available, stop at and *)
(* hand back the first '*'.                                                *)
RECURSIVE FlushLoop(_)
FlushLoop(p) ==
    IF Len(p.uart) = 0 THEN p
    ELSE CHOOSE q \in {IF r.b = STAR THEN m_UnreadByte(r.p, STAR) ELSE FlushLoop(r.p) :
                          r \in {m_ReadByte(p)}} : TRUE

(* Mutant of m_FlushGarbage: the '*' that ends the flush is not kept.      *)
m_FlushGarbage_NoLookahead(p) ==
    LET q == IF p.buf = -1 THEN FlushLoop(p) ELSE p
    IN [q EXCEPT !.st = "Start", !.buf = IF p.buf = -1 THEN -1 ELSE @]

(* Mutant of m_FlushGarbage: the parser state is left as it is.            *)
m_FlushGarbage_KeepsState(p) ==
    IF p.buf = -1 THEN FlushLoop(p) ELSE p

m_FlushGarbage(p) ==
    LET q == IF p.buf = -1 THEN FlushLoop(p) ELSE p
    IN [q EXCEPT !.st = "Start"]

Cont(p) == [p |-> p, ret |-> "continue"]
Ret(p, ev) == [p |-> p, ret |-> ev]

(* Mutant of ParseStart: a byte other than '*' is reported as Garbage.     *)
ParseStart_ReportsGarbage(p) ==
    LET r == m_ReadByte([p EXCEPT !.idx = 0])
        q == RxPut(r.p, 0, r.b)
    IN IF r.b = STAR
       THEN Cont([q EXCEPT !.idx = 1, !.st = "ReadCmdFirstLetter"])
       ELSE Ret(m_FlushGarbage(q), "Garbage")

(* case MLR_ModemParserState::Start                                        *)
ParseStart(p) ==
    LET r == m_ReadByte([p EXCEPT !.idx = 0])
        q == RxPut(r.p, 0, r.b)
    IN IF r.b = STAR
       THEN Cont([q EXCEPT !.idx = 1, !.st = "ReadCmdFirstLetter"])
       ELSE Ret(m_FlushGarbage(q), "Parsing")

(* case MLR_ModemParserState::ReadCmdFirstLetter                           *)
ParseFirstLetter(p) ==
    LET r == m_ReadByte(p)
        q == RxPut(r.p, p.idx, r.b)
    IN IF isupper(q.rx[q.idx])
       THEN Cont([q EXCEPT !.idx = @ + 1, !.st = "ReadCmdSecondLetter"])
       ELSE LET u == IF q.rx[q.idx] = STAR THEN m_UnreadByte(q, STAR) ELSE q
            IN Ret(m_FlushGarbage(u), "Garbage")

(* case MLR_ModemParserState::ReadCmdSecondLetter                          *)
ParseSecondLetter(p) ==
    LET r == m_ReadByte(p)
        q == RxPut(r.p, p.idx, r.b)
    IN IF isupper(q.rx[2])
       THEN Cont([q EXCEPT !.idx = @ + 1, !.st = "ReadCmdParam"])
       ELSE LET u == IF q.rx[2] = STAR THEN m_UnreadByte(q, STAR) ELSE q
            IN Ret(m_FlushGarbage(u), "Garbage")

(* Mutant of ParseParam: the rejected byte is handed back whatever it is.  *)
ParseParam_UnreadsAny(p) ==
    LET r == m_ReadByte(p)
        q == RxPut(r.p, p.idx, r.b)
    IN IF q.rx[1] = ChD /\ q.rx[2] = ChR /\ q.rx[3] = EQ
       THEN Cont([q EXCEPT !.idx = @ + 1, !.st = "RadioDrSize"])
       ELSE IF isupper(q.rx[1]) /\ isupper(q.rx[2]) /\ q.rx[3] = EQ
       THEN Cont([q EXCEPT !.idx = @ + 1, !.st = "ReadCmdUntilCR"])
       ELSE Ret(m_FlushGarbage(m_UnreadByte(q, q.rx[q.idx])), "Garbage")

(* case MLR_ModemParserState::ReadCmdParam                                 *)
ParseParam(p) ==
    LET r == m_ReadByte(p)
        q == RxPut(r.p, p.idx, r.b)
    IN IF q.rx[1] = ChD /\ q.rx[2] = ChR /\ q.rx[3] = EQ
       THEN Cont([q EXCEPT !.idx = @ + 1, !.st = "RadioDrSize"])
       ELSE IF isupper(q.rx[1]) /\ isupper(q.rx[2]) /\ q.rx[3] = EQ
       THEN Cont([q EXCEPT !.idx = @ + 1, !.st = "ReadCmdUntilCR"])
       ELSE LET u == IF q.rx[q.idx] = STAR THEN m_UnreadByte(q, STAR) ELSE q
            IN Ret(m_FlushGarbage(u), "Garbage")

(* Mutant of ParseDrSize: the payload is stored behind the header's index. *)
ParseDrSize_KeepsIndex(p) ==
    LET r == m_ReadByte(p)
        q0 == RxPut(r.p, p.idx, r.b)
        q == [q0 EXCEPT !.idx = @ + 1]
    IN IF q.idx < 6
       THEN Ret(q, "Parsing")
       ELSE IF isxdigit(q.rx[4]) /\ isxdigit(q.rx[5])
       THEN Cont([q EXCEPT !.drPresent = FALSE,
                           !.drLen = s_ParseHex(<<q.rx[4], q.rx[5]>>).value % 256,
                           !.st = "RadioDrPayload"])
       ELSE Ret(m_FlushGarbage(q), "Garbage")

(* Mutant of ParseDrSize: a new header leaves the stored packet present.   *)
ParseDrSize_KeepsPresent(p) ==
    LET r == m_ReadByte(p)
        q0 == RxPut(r.p, p.idx, r.b)
        q == [q0 EXCEPT !.idx = @ + 1]
    IN IF q.idx < 6
       THEN Ret(q, "Parsing")
       ELSE IF isxdigit(q.rx[4]) /\ isxdigit(q.rx[5])
       THEN Cont([q EXCEPT !.drLen = s_ParseHex(<<q.rx[4], q.rx[5]>>).value % 256,
                           !.idx = 0,
                           !.st = "RadioDrPayload"])
       ELSE Ret(m_FlushGarbage(q), "Garbage")

(* case MLR_ModemParserState::RadioDrSize                                  *)
ParseDrSize(p) ==
    LET r == m_ReadByte(p)
        q0 == RxPut(r.p, p.idx, r.b)
        q == [q0 EXCEPT !.idx = @ + 1]
    IN IF q.idx < 6
       THEN Ret(q, "Parsing")
       ELSE IF isxdigit(q.rx[4]) /\ isxdigit(q.rx[5])
       THEN Cont([q EXCEPT !.drPresent = FALSE,
                           !.drLen = s_ParseHex(<<q.rx[4], q.rx[5]>>).value % 256,
                           !.idx = 0,
                           !.st = "RadioDrPayload"])
       ELSE Ret(m_FlushGarbage(q), "Garbage")

(* Mutant of ParseDrPayload: the terminator is expected one byte late.     *)
ParseDrPayload_OneLate(p) ==
    LET r == m_ReadByte(p)
        q0 == DrPut(r.p, p.idx, r.b)
        q == [q0 EXCEPT !.idx = @ + 1]
    IN IF (q.drLen + 3 - q.idx) = 0
       THEN IF q.dr[q.idx - 2] = CR /\ q.dr[q.idx - 1] = LF
            THEN LET z == DrPut(q, q.idx - 2, 0)
                     y == RxPut([z EXCEPT !.idx = 0], 0, 0)
                 IN Ret([y EXCEPT !.drPresent = TRUE, !.st = "Start"],
                        "FinishedDrResponse")
            ELSE Ret(m_FlushGarbage(q), "Garbage")
       ELSE Cont(q)

(* Mutant of ParseDrPayload: a completed data frame leaves the command     *)
(* buffer as it was.                                                       *)
ParseDrPayload_KeepsCommand(p) ==
    LET r == m_ReadByte(p)
        q0 == DrPut(r.p, p.idx, r.b)
        q == [q0 EXCEPT !.idx = @ + 1]
    IN IF (q.drLen + 2 - q.idx) = 0
       THEN IF q.dr[q.idx - 2] = CR /\ q.dr[q.idx - 1] = LF
            THEN LET z == DrPut(q, q.idx - 2, 0)
                 IN Ret([z EXCEPT !.drPresent = TRUE, !.st = "Start"],
                        "FinishedDrResponse")
            ELSE Ret(m_FlushGarbage(q), "Garbage")
       ELSE Cont(q)

(* case MLR_ModemParserState::RadioDrPayload                               *)
ParseDrPayload(p) ==
    LET r == m_ReadByte(p)
        q0 == DrPut(r.p, p.idx, r.b)
        q == [q0 EXCEPT !.idx = @ + 1]
    IN IF (q.drLen + 2 - q.idx) = 0
       THEN IF q.dr[q.idx - 2] = CR /\ q.dr[q.idx - 1] = LF
            THEN LET z == DrPut(q, q.idx - 2, 0)
                     y == RxPut([z EXCEPT !.idx = 0], 0, 0)
                 IN Ret([y EXCEPT !.drPresent = TRUE, !.st = "Start"],
                        "FinishedDrResponse")
            ELSE Ret(m_FlushGarbage(q), "Garbage")
       ELSE Cont(q)

(* Mutant of ParseUntilCR: an overflow leaves the parser in mid-frame.     *)
ParseUntilCR_OverflowStays(p) ==
    LET r == m_ReadByte(p)
        q == RxPut(r.p, p.idx, r.b)
        n == [q EXCEPT !.idx = @ + 1]
    IN IF r.b = CR
       THEN IF n.idx = RxSize
            THEN Ret(n, "Overflow")
            ELSE Cont([n EXCEPT !.st = "ReadCmdUntilLF"])
       ELSE IF r.b = LF
       THEN Ret(m_FlushGarbage(q), "Garbage")
       ELSE IF r.b = STAR
       THEN Ret(m_FlushGarbage(m_UnreadByte(q, STAR)), "Garbage")
       ELSE IF n.idx = RxSize
            THEN Ret(n, "Overflow")
            ELSE Cont(n)

(* Mutant of ParseUntilCR: the overflow test lets one more byte in.        *)
ParseUntilCR_LateOverflow(p) ==
    LET r == m_ReadByte(p)
        q == RxPut(r.p, p.idx, r.b)
        n == [q EXCEPT !.idx = @ + 1]
    IN IF r.b = CR
       THEN IF n.idx = RxSize + 1
            THEN Ret([n EXCEPT !.st = "Start"], "Overflow")
            ELSE Cont([n EXCEPT !.st = "ReadCmdUntilLF"])
       ELSE IF r.b = LF
       THEN Ret(m_FlushGarbage(q), "Garbage")
       ELSE IF r.b = STAR
       THEN Ret(m_FlushGarbage(m_UnreadByte(q, STAR)), "Garbage")
       ELSE IF n.idx = RxSize + 1
            THEN Ret([n EXCEPT !.st = "Start"], "Overflow")
            ELSE Cont(n)

(* Mutant of ParseUntilCR: a '*' inside the value is stored like any byte. *)
ParseUntilCR_AcceptsStar(p) ==
    LET r == m_ReadByte(p)
        q == RxPut(r.p, p.idx, r.b)
        n == [q EXCEPT !.idx = @ + 1]
    IN IF r.b = CR
       THEN IF n.idx = RxSize
            THEN Ret([n EXCEPT !.st = "Start"], "Overflow")
            ELSE Cont([n EXCEPT !.st = "ReadCmdUntilLF"])
       ELSE IF r.b = LF
       THEN Ret(m_FlushGarbage(q), "Garbage")
       ELSE IF n.idx = RxSize
            THEN Ret([n EXCEPT !.st = "Start"], "Overflow")
            ELSE Cont(n)

(* case MLR_ModemParserState::ReadCmdUntilCR                               *)
ParseUntilCR(p) ==
    LET r == m_ReadByte(p)
        q == RxPut(r.p, p.idx, r.b)
        n == [q EXCEPT !.idx = @ + 1]
    IN IF r.b = CR
       THEN IF n.idx = RxSize
            THEN Ret([n EXCEPT !.st = "Start"], "Overflow")
            ELSE Cont([n EXCEPT !.st = "ReadCmdUntilLF"])
       ELSE IF r.b = LF
       THEN Ret(m_FlushGarbage(q), "Garbage")
       ELSE IF r.b = STAR
       THEN Ret(m_FlushGarbage(m_UnreadByte(q, STAR)), "Garbage")
       ELSE IF n.idx = RxSize
            THEN Ret([n EXCEPT !.st = "Start"], "Overflow")
            ELSE Cont(n)

(* Mutant of ParseUntilLF: the index is not moved back over the CR.        *)
ParseUntilLF_KeepCR(p) ==
    LET r == m_ReadByte(p)
        q == RxPut(r.p, p.idx, r.b)
    IN IF r.b = LF
       THEN Ret([q EXCEPT !.st = "Start"], "FinishedCmdResponse")
       ELSE LET u == IF r.b = STAR THEN m_UnreadByte(q, STAR) ELSE q
            IN Ret(m_FlushGarbage(u), "Garbage")

(* case MLR_ModemParserState::ReadCmdUntilLF                               *)
ParseUntilLF(p) ==
    LET r == m_ReadByte(p)
        q == RxPut(r.p, p.idx, r.b)
    IN IF r.b = LF
       THEN Ret([q EXCEPT !.idx = @ - 1, !.st = "Start"], "FinishedCmdResponse")
       ELSE LET u == IF r.b = STAR THEN m_UnreadByte(q, STAR) ELSE q
            IN Ret(m_FlushGarbage(u), "Garbage")

(* The switch of m_Parse: one pass of the loop body.                       *)
ParseCase(p) ==
    CASE p.st = "Start" -> ParseStart(p)
      [] p.st = "ReadCmdFirstLetter" -> ParseFirstLetter(p)
      [] p.st = "ReadCmdSecondLetter" -> ParseSecondLetter(p)
      [] p.st = "ReadCmdParam" -> ParseParam(p)
      [] p.st = "RadioDrSize" -> ParseDrSize(p)
      [] p.st = "RadioDrPayload" -> ParseDrPayload(p)
      [] p.st = "ReadCmdUntilCR" -> ParseUntilCR(p)
      [] p.st = "ReadCmdUntilLF" -> ParseUntilLF(p)
      [] OTHER -> Cont([p EXCEPT !.st = "Start", !.idx = 0])

(* m_Parse: while (m_pUart->available()) { switch ... } return Parsing     *)
RECURSIVE m_Parse(_)
m_Parse(p) ==
    IF Len(p.uart) = 0 THEN Ret(p, "Parsing")
    ELSE CHOOSE q \in {IF r.ret = "continue" THEN m_Parse(r.p) ELSE r :
                          r \in {ParseCase(p)}} : TRUE

---------------------------------------------------------------------------
(* Input scenarios of the parser specification.                            *)

(* Bounds of the scenarios.                                                *)
MaxVar == 2         \* freely chosen leading bytes of a command value
MaxOver == 2        \* command frames are tried up to RxSize + MaxOver bytes
MaxDrLen == 2       \* declared data lengths 0..MaxDrLen (and two large ones)
MaxPayVar == 1      \* freely chosen leading bytes of a data payload
MaxChunk == 3       \* bytes arriving together: 1, MaxChunk, or a full burst
MaxBurst == 40      \* most bytes the transport holds at once

Min(a, b) == IF a <= b THEN a ELSE b
FillByte == 120
ValBytes == {48, 0, EQ}
PayBytes == {STAR, CR, LF, FillByte}
LetterPairs == {<<67, 72>>, <<ChD, ChD>>, <<ChR, ChR>>}
CRLF == <<CR, LF>>

(* Sequences of n bytes: the first k free in S, the rest equal to f.       *)
Filled(n, k, S, f) ==
    {[i \in 1..n |-> IF i <= Min(k, n) THEN h[i] ELSE f] :
        h \in [1..Min(k, n) -> S]}

CmdLens == (4..(4 + MaxVar)) \cup ((RxSize - 3)..(RxSize + MaxOver))

CmdFrames ==
    {<<STAR, l[1], l[2], EQ>> \o v :
        l \in LetterPairs,
        v \in UNION {Filled(n - 4, MaxVar, ValBytes, FillByte) : n \in CmdLens}}

HexDigitUpper(n) == IF n < 10 THEN 48 + n ELSE 55 + n
HexDigitLower(n) == IF n < 10 THEN 48 + n ELSE 87 + n
DrHeaders(L) ==
    {<<STAR, ChD, ChR, EQ, HexDigitUpper(L \div 16), HexDigitUpper(L % 16)>>,
     <<STAR, ChD, ChR, EQ, HexDigitLower(L \div 16), HexDigitLower(L % 16)>>}

DrLens == (0..MaxDrLen) \cup {10, 255}

(* "*CH=0A": the well-formed frame that follows an injected '*'.           *)
FollowFrame == <<STAR, 67, 72, EQ, 48, 65>>
(* The frames cut short by the injected '*', with the parser state each    *)
(* prefix leaves: "*", "*C", "*CH", "*CH=", "*CH=0", "*CH=0A\r", "*DR=",   *)
(* "*DR=0".                                                                *)
CutCmd == <<STAR, 67, 72, EQ, 48, 65, CR>>
CutDr == <<STAR, ChD, ChR, EQ, 48>>
CutPrefixes ==
    {SubSeq(CutCmd, 1, k) : k \in 1..Len(CutCmd)} \cup
    {SubSeq(CutDr, 1, k) : k \in 4..5}

(* Bytes that belong to no frame, ahead of a well-formed one.               *)
NoisePrefixes == {<<FillByte>>, <<FillByte, CR, LF>>, <<CR, 48, LF>>}

(* Frames broken in one way each: "*c", "*Ch", "*CH:", "*DR=G0", "*DR=0G",  *)
(* "*DR=01!XY", "*CH=0\n", "*CH=0A\rX".                                     *)
BrokenFrames ==
    {<<STAR, 99>>, <<STAR, 67, 104>>, <<STAR, 67, 72, 58>>,
     <<STAR, ChD, ChR, EQ, 71, 48>>, <<STAR, ChD, ChR, EQ, 48, 71>>,
     <<STAR, ChD, ChR, EQ, 48, 49, 33, 88, 89>>,
     <<STAR, 67, 72, EQ, 48, LF>>, <<STAR, 67, 72, EQ, 48, 65, CR, 88>>}

ParseScripts ==
    {[kind |-> "cmd", pre |-> <<>>, frame |-> f, payload |-> <<>>] :
        f \in CmdFrames}
    \cup
    UNION {{[kind |-> "dr", pre |-> <<>>, frame |-> h \o pl, payload |-> pl] :
               h \in DrHeaders(L),
               pl \in UNION {Filled(L, MaxPayVar, PayBytes, f) :
                               f \in {FillByte, CR}}} :
           L \in DrLens}
    \cup
    {[kind |-> "inject", pre |-> c, frame |-> FollowFrame, payload |-> <<>>] :
        c \in CutPrefixes}
    \cup
    {[kind |-> "noise", pre |-> c, frame |-> FollowFrame, payload |-> <<>>] :
        c \in NoisePrefixes}
    \cup
    {[kind |-> "broken", pre |-> c, frame |-> FollowFrame, payload |-> <<>>] :
        c \in BrokenFrames}

ScriptBytes(s) == s.pre \o s.frame \o CRLF

(* Number of bytes the parser has taken from the transport so far.         *)
Consumed == Len(ScriptBytes(script)) - Len(wire) - Len(uart)
AllConsumed == wire = <<>> /\ uart = <<>>

(* enum class MLR_ModemMode                                                *)
FskBin == 0
FskCmd == 1
LoRaBin == 2
LoRaCmd == 3

NoCall == [op |-> "none", arg |-> 0, step |-> 0, val |-> 0, save |-> FALSE,
           size |-> 0]
NoRet == [op |-> "none", arg |-> 0, rv |-> "none", wrote |-> FALSE, val |-> 0,
          out |-> <<>>]
NoWait == [rv |-> "none", ev |-> "none", at |-> 0, ms |-> 0, st |-> "Start",
           frame |-> <<>>, clean |-> FALSE, due |-> <<>>, cb0 |-> 0,
           data |-> <<>>, req |-> <<>>, got |-> <<>>, waits |-> 0]

(* The driver as begin() leaves it, apart from the cached mode and the     *)
(* callback, which depend on begin()'s argument and the modem's answer.    *)
DriverInit ==
    /\ m_asyncExpectedResponse = "Idle"
    /\ bTimeout = TRUE
    /\ timeOut = 0
    /\ elapsed = 0
    /\ tx = <<>>
    /\ call = NoCall
    /\ ret = NoRet
    /\ cbLog = <<>>
    /\ lastWait = NoWait
    /\ calls = 0
    /\ sent = 0

(* The state begin() sets up before it talks to the modem.                 *)
ParserInit ==
    /\ m_parserState = "Start"
    /\ m_oneByteBuf = -1
    /\ m_rxIdx = 0
    /\ m_rxMessage = [i \in 0..(RxSize - 1) |-> 0]
    /\ m_drMessagePresent = FALSE
    /\ m_drMessageLen = 0
    /\ m_drMessage = [i \in 0..(DrSize - 1) |-> 0]
    /\ rxHigh = -1
    /\ drHigh = -1
    /\ unreadOver = FALSE

InitParse ==
    /\ ParserInit
    /\ DriverInit
    /\ m_mode = FskCmd
    /\ m_pCallback = FALSE
    /\ script \in ParseScripts
    /\ wire = ScriptBytes(script)
    /\ uart = <<>>
    /\ lastRet = "none"
    /\ events = <<>>

(* The modem delivers the next 1, MaxChunk or MaxBurst bytes (or what is   *)
(* left of them).                                                          *)
Arrive ==
    /\ uart = <<>>
    /\ wire # <<>>
    /\ \E k \in {1, Min(MaxChunk, Len(wire)), Min(MaxBurst, Len(wire))} :
          /\ uart' = SubSeq(wire, 1, k)
          /\ wire' = SubSeq(wire, k + 1, Len(wire))
    /\ UNCHANGED <<parserVars, script, histVars, driverVars>>

(* One call of m_Parse.                                                    *)
ParseCall ==
    /\ uart # <<>>
    /\ LET r == m_Parse(PState)
       IN /\ Commit(r.p)
          /\ lastRet' = r.ret
          /\ events' = IF r.ret = "Parsing" THEN events ELSE Append(events, r.ret)
    /\ UNCHANGED <<wire, script, driverVars>>

NextParse == Arrive \/ ParseCall

SpecParse == InitParse /\ [][NextParse]_vars

---------------------------------------------------------------------------
RxPrefix(n) == [i \in 1..n |-> m_rxMessage[i - 1]]
DrPrefix(n) == [i \in 1..n |-> m_drMessage[i - 1]]

(* C1 (as amended): a command frame *AB=<value> of at most RxSize - 2 = 30 *)
(* bytes, fed from Start with no lookahead, gives exactly one              *)
(* FinishedCmdResponse and nothing else, and m_rxMessage[0..m_rxIdx) is    *)
(* the frame without CRLF.                                                 *)
C1_CmdFrameCaptured ==
    (script.kind = "cmd" /\ Len(script.frame) <= RxSize - 2)
    => /\ events \in {<<>>, <<"FinishedCmdResponse">>}
       /\ AllConsumed =>
            /\ events = <<"FinishedCmdResponse">>
            /\ m_rxIdx = Len(script.frame)
            /\ RxPrefix(m_rxIdx) = script.frame

C1_Witness ==
    /\ script.kind = "cmd"
    /\ Len(script.frame) = RxSize - 2
    /\ AllConsumed
    /\ events = <<"FinishedCmdResponse">>

(* C1 as stated: the same for every frame of at most RxSize = 32 bytes.    *)
C1_AsStated ==
    (script.kind = "cmd" /\ Len(script.frame) <= RxSize /\ AllConsumed)
    => /\ events = <<"FinishedCmdResponse">>
       /\ RxPrefix(m_rxIdx) = script.frame

(* C2: a data frame *DR=<hh><L bytes>CRLF, whatever the L bytes are, gives *)
(* exactly one FinishedDrResponse and nothing else; the packet is then     *)
(* present with m_drMessageLen = L and m_drMessage[0..L) the payload.      *)
C2_DataFrameCaptured ==
    script.kind = "dr"
    => /\ events \in {<<>>, <<"FinishedDrResponse">>}
       /\ AllConsumed =>
            /\ events = <<"FinishedDrResponse">>
            /\ m_drMessagePresent
            /\ m_drMessageLen = Len(script.payload)
            /\ DrPrefix(m_drMessageLen) = script.payload

C2_Witness ==
    /\ script.kind = "dr"
    /\ Len(script.payload) = 255
    /\ \E i \in 1..Len(script.payload) : script.payload[i] \in {STAR, CR, LF}
    /\ AllConsumed
    /\ events = <<"FinishedDrResponse">>
    /\ m_drMessagePresent

(* C4: a command frame longer than RxSize bytes before its CR is reported  *)
(* as Overflow exactly once, the parser is in Start on that return, and no *)
(* byte is stored outside m_rxMessage[0..RxSize-1].                        *)
C4_OverflowOnce ==
    (script.kind = "cmd" /\ Len(script.frame) > RxSize)
    => /\ rxHigh <= RxSize - 1
       /\ events \in {<<>>, <<"Overflow">>}
       /\ lastRet = "Overflow" => m_parserState = "Start"
       /\ Consumed >= RxSize => events = <<"Overflow">>

C4_Witness ==
    /\ script.kind = "cmd"
    /\ Len(script.frame) > RxSize
    /\ AllConsumed
    /\ events = <<"Overflow">>
    /\ rxHigh = RxSize - 1

(* C3 as stated: a '*' read in ReadCmdFirstLetter, ReadCmdSecondLetter,    *)
(* ReadCmdParam, RadioDrSize, ReadCmdUntilCR or ReadCmdUntilLF ends that   *)
(* m_Parse call with Garbage, in Start, with the '*' as the lookahead      *)
(* byte, and the well-formed frame that starts with this '*' is then       *)
(* reported complete.                                                      *)
C3_StarNeverLost ==
    script.kind = "inject"
    => /\ Consumed = Len(script.pre) + 1 =>
            /\ lastRet = "Garbage"
            /\ m_parserState = "Start"
            /\ m_oneByteBuf = STAR
       /\ AllConsumed =>
            /\ events # <<>>
            /\ events[Len(events)] = "FinishedCmdResponse"
            /\ RxPrefix(m_rxIdx) = script.frame

---------------------------------------------------------------------------
(* Response decoders.  Each works on the parser record p (some write into  *)
(* m_rxMessage) and yields the error code, whether the caller's output     *)
(* variable was written, and the value.                                    *)

(* Protocol strings (ASCII).                                               *)
MLR_WRITE_VALUE_RESPONSE_PREFIX == <<42, 87, 82, 61, 80, 83>>    \* "*WR=PS"
MLR_SET_CHANNEL_RESPONSE_PREFIX == <<42, 67, 72, 61>>            \* "*CH="
MLR_SET_MODE_RESPONSE_PREFIX == <<42, 77, 79, 61>>               \* "*MO="
MLR_SET_SF_RESPONSE_PREFIX == <<42, 83, 70, 61>>                 \* "*SF="
MLR_SET_BAUDRATE_RESPONSE_PREFIX == <<42, 66, 82, 61>>           \* "*BR="
MLR_GET_USERID_RESPONSE_PREFIX == <<42, 85, 73, 61>>             \* "*UI="
MLR_GET_RSSI_LAST_RX_RESPONSE_PREFIX == <<42, 82, 83, 61>>       \* "*RS="
MLR_GET_RSSI_CURRENT_CHANNEL_RESPONSE_PREFIX == <<42, 82, 65, 61>> \* "*RA="
MLR_GET_SERIAL_NUMBER_RESPONSE_PREFIX == <<42, 83, 78, 61>>      \* "*SN="
MLR_SET_IZ_RESPONSE_PREFIX_OK == <<42, 73, 90, 61, 79, 75>>      \* "*IZ=OK"
MLR_TRANSMISSION_RESPONSE_PREFIX == <<42, 68, 84, 61>>           \* "*DT="
MLR_INFORMATION_RESPONSE_PREFIX == <<42, 73, 82, 61>>            \* "*IR="

MLR_GET_CHANNEL_STRING == <<64, 67, 72, 13, 10>>                 \* "@CH\r\n"
MLR_GET_MODE_STRING == <<64, 77, 79, 13, 10>>                    \* "@MO\r\n"
MLR_SET_CHANNEL_PREFIX_STRING == <<64, 67, 72>>                  \* "@CH"
MLR_SET_MODE_PREFIX_STRING == <<64, 77, 79>>                     \* "@MO"
MLR_SET_SF_PREFIX_STRING == <<64, 83, 70>>                       \* "@SF"
MLR_SET_BAUDRATE_PREFIX_STRING == <<64, 66, 82>>                 \* "@BR"
MLR_GET_USERID_STRING == <<64, 85, 73, 13, 10>>                  \* "@UI\r\n"
MLR_GET_RSSI_LAST_RX_STRING == <<64, 82, 83, 13, 10>>            \* "@RS\r\n"
MLR_GET_RSSI_CURRENT_CHANNEL_STRING == <<64, 82, 65, 13, 10>>    \* "@RA\r\n"
MLR_GET_SERIAL_NUMBER_STRING == <<64, 83, 78, 13, 10>>           \* "@SN\r\n"
MLR_SET_IZ_STRING == <<64, 73, 90, 13, 10>>                      \* "@IZ\r\n"
MLR_TRANSMISSION_PREFIX_STRING == <<64, 68, 84>>                 \* "@DT"

MLR_WRITE_VALUE_RESPONSE_LEN == 6
MLR_SET_CHANNEL_RESPONSE_LEN == 6
MLR_SET_MODE_RESPONSE_LEN == 6
MLR_SET_SF_RESPONSE_LEN == 6
MLR_SET_BAUDRATE_RESPONSE_LEN == 6
MLR_GET_USERID_RESPONSE_LEN == 8
MLR_GET_RSSI_LAST_RX_RESPONSE_MIN_LEN == 10
MLR_GET_RSSI_LAST_RX_RESPONSE_MAX_LEN == 11
MLR_GET_RSSI_CURRENT_CHANNEL_RESPONSE_MIN_LEN == 10
MLR_GET_RSSI_CURRENT_CHANNEL_RESPONSE_MAX_LEN == 11
MLR_GET_SERIAL_NUMBER_RESPONSE_LEN == 12
MLR_SET_IZ_RESPONSE_LEN_OK == 6
MLR_TRANSMISSION_RESPONSE_LEN == 6
MLR_INFORMATION_RESPONSE_LEN == 6
MLR_SET_CHANNEL_MIN_VALUE_JP == 7
MLR_SET_CHANNEL_MAX_VALUE_JP == 46
MLR_SET_SF_MIN_VALUE == 0
MLR_SET_SF_MAX_VALUE == 5
MLR_INFORMATION_RESPONSE_ERR_NO_TX == 1
MLR_INFORMATION_RESPONSE_ERR_OTHER_WAVES == 2

(* strncmp(prefix, m_rxMessage, n) = 0; the prefix holds no NUL.           *)
PrefixEq(p, prefix, n) == \A i \in 1..n : p.rx[i - 1] = prefix[i]

(* The n bytes of m_rxMessage from index from on.                          *)
MsgBytes(p, from, n) == [i \in 1..n |-> p.rx[from + i - 1]]

Decoded(rv, wrote, val, p) == [rv |-> rv, wrote |-> wrote, val |-> val, p |-> p]

(* s_ParseDec: at most 8 digits are passed, so the uint32 does not wrap.   *)
RECURSIVE ParseDecFrom(_, _, _)
ParseDecFrom(data, i, acc) ==
    IF i > Len(data) THEN [ok |-> TRUE, value |-> acc]
    ELSE LET m == acc * 10
         IN IF isdigit(data[i])
            THEN ParseDecFrom(data, i + 1, m + (data[i] - 48))
            ELSE [ok |-> FALSE, value |-> m]

s_ParseDec(data) == ParseDecFrom(data, 1, 0)

m_HandleMessage_WR(p) ==
    IF p.idx = MLR_WRITE_VALUE_RESPONSE_LEN
       /\ PrefixEq(p, MLR_WRITE_VALUE_RESPONSE_PREFIX, MLR_WRITE_VALUE_RESPONSE_LEN)
    THEN "Ok" ELSE "Fail"

m_HandleMessage_IZ(p) ==
    IF p.idx = MLR_SET_IZ_RESPONSE_LEN_OK
       /\ PrefixEq(p, MLR_SET_IZ_RESPONSE_PREFIX_OK, MLR_SET_IZ_RESPONSE_LEN_OK)
    THEN "Ok" ELSE "Fail"

(* Mutant of m_HandleMessageHexByte: the length of the frame is not        *)
(* looked at.                                                              *)
m_HandleMessageHexByte_AnyLength(p, responseLen, responsePrefix) ==
    IF PrefixEq(p, responsePrefix, Len(responsePrefix))
    THEN LET h == s_ParseHex(MsgBytes(p, Len(responsePrefix), 2))
         IN IF h.ok THEN Decoded("Ok", TRUE, h.value % 256, p)
            ELSE Decoded("Fail", FALSE, 0, p)
    ELSE Decoded("Fail", FALSE, 0, p)

m_HandleMessageHexByte(p, responseLen, responsePrefix) ==
    IF p.idx # responseLen THEN Decoded("Fail", FALSE, 0, p)
    ELSE IF PrefixEq(p, responsePrefix, Len(responsePrefix))
    THEN LET h == s_ParseHex(MsgBytes(p, Len(responsePrefix), 2))
         IN IF h.ok THEN Decoded("Ok", TRUE, h.value % 256, p)
            ELSE Decoded("Fail", FALSE, 0, p)
    ELSE Decoded("Fail", FALSE, 0, p)

m_HandleMessageHexWord(p, responseLen, responsePrefix) ==
    IF p.idx # responseLen THEN Decoded("Fail", FALSE, 0, p)
    ELSE IF PrefixEq(p, responsePrefix, Len(responsePrefix))
    THEN LET h == s_ParseHex(MsgBytes(p, Len(responsePrefix), 4))
         IN IF h.ok THEN Decoded("Ok", TRUE, h.value % 65536, p)
            ELSE Decoded("Fail", FALSE, 0, p)
    ELSE Decoded("Fail", FALSE, 0, p)

(* strtol(&m_rxMessage[from], &pEnd, 10) on the NUL-terminated string in   *)
(* rx: white space is skipped, one sign is accepted, then decimal digits.  *)
(* With no digit at all pEnd is the start of the string.  The result is    *)
(* [end |-> index pEnd points at, value |-> the number].                   *)
isspace(b) == b \in {32, 9, 10, 11, 12, 13}

RECURSIVE SkipSpace(_, _)
SkipSpace(rx, i) == IF i \in DOMAIN rx /\ isspace(rx[i]) THEN SkipSpace(rx, i + 1) ELSE i

RECURSIVE DigitsFrom(_, _, _)
DigitsFrom(rx, i, acc) ==
    IF i \in DOMAIN rx /\ isdigit(rx[i])
    THEN DigitsFrom(rx, i + 1, acc * 10 + (rx[i] - 48))
    ELSE [end |-> i, value |-> acc]

strtol(rx, from) ==
    LET i0 == SkipSpace(rx, from)
        signed == i0 \in DOMAIN rx /\ rx[i0] \in {43, 45}
        i1 == IF signed THEN i0 + 1 ELSE i0
        d == DigitsFrom(rx, i1, 0)
    IN IF d.end = i1 THEN [end |-> from, value |-> 0]
       ELSE [end |-> d.end,
             value |-> IF signed /\ rx[i0] = 45 THEN 0 - d.value ELSE d.value]

(* The common body of m_HandleMessage_RS and m_HandleMessage_RA.  The 'd'  *)
(* of "dBm" is overwritten with 0 before the number is read.               *)
HandleRssi(p, prefix, minLen, maxLen) ==
    IF p.idx < minLen \/ p.idx > maxLen THEN Decoded("Fail", FALSE, 0, p)
    ELSE IF ~PrefixEq(p, prefix, Len(prefix)) THEN Decoded("Fail", FALSE, 0, p)
    ELSE IF ~(p.rx[p.idx - 3] = 100 /\ p.rx[p.idx - 2] = 66 /\ p.rx[p.idx - 1] = 109)
    THEN Decoded("Fail", FALSE, 0, p)
    ELSE LET q == RxPut(p, p.idx - 3, 0)
             r == strtol(q.rx, 4)
         IN IF r.end # p.idx - 3 THEN Decoded("Fail", FALSE, 0, q)
            ELSE Decoded("Ok", TRUE, r.value, q)

m_HandleMessage_RS(p) ==
    HandleRssi(p, MLR_GET_RSSI_LAST_RX_RESPONSE_PREFIX,
               MLR_GET_RSSI_LAST_RX_RESPONSE_MIN_LEN,
               MLR_GET_RSSI_LAST_RX_RESPONSE_MAX_LEN)

m_HandleMessage_RA(p) ==
    HandleRssi(p, MLR_GET_RSSI_CURRENT_CHANNEL_RESPONSE_PREFIX,
               MLR_GET_RSSI_CURRENT_CHANNEL_RESPONSE_MIN_LEN,
               MLR_GET_RSSI_CURRENT_CHANNEL_RESPONSE_MAX_LEN)

(* Mutant of m_HandleMessage_SN: eight digits are read whatever the first  *)
(* byte is.                                                                *)
m_HandleMessage_SN_NoLetter(p) ==
    IF p.idx = MLR_GET_SERIAL_NUMBER_RESPONSE_LEN
       /\ PrefixEq(p, MLR_GET_SERIAL_NUMBER_RESPONSE_PREFIX,
                   Len(MLR_GET_SERIAL_NUMBER_RESPONSE_PREFIX))
    THEN LET d == s_ParseDec(MsgBytes(p, 4, 8))
         IN IF d.ok THEN Decoded("Ok", TRUE, d.value, p)
            ELSE Decoded("Fail", FALSE, 0, p)
    ELSE Decoded("Fail", FALSE, 0, p)

m_HandleMessage_SN(p) ==
    IF p.idx = MLR_GET_SERIAL_NUMBER_RESPONSE_LEN
       /\ PrefixEq(p, MLR_GET_SERIAL_NUMBER_RESPONSE_PREFIX,
                   Len(MLR_GET_SERIAL_NUMBER_RESPONSE_PREFIX))
    THEN LET lead == isdigit(p.rx[4])
             startIdx == IF lead THEN 4 ELSE 5
             hexLen == IF lead THEN 8 ELSE 7
             d == s_ParseDec(MsgBytes(p, startIdx, hexLen))
         IN IF d.ok THEN Decoded("Ok", TRUE, d.value, p)
            ELSE Decoded("Fail", FALSE, 0, p)
    ELSE Decoded("Fail", FALSE, 0, p)

---------------------------------------------------------------------------
(* The bounded wait and the asynchronous dispatcher.                       *)

CbEntry(err, kind, value, payload, len) ==
    [err |-> err, kind |-> kind, value |-> value, payload |-> payload, len |-> len]

(* The bytes a callback sees behind (m_drMessage, m_drMessageLen) and      *)
(* behind (m_rxMessage, m_rxIdx).                                          *)
DrOf(p) == [i \in 1..p.drLen |-> p.dr[i - 1]]
RxOf(p) == [i \in 1..Min(p.idx, RxSize) |-> p.rx[i - 1]]

(* m_IsTimeout: the value returned, which is also the new bTimeout.        *)
m_IsTimeout(bT, el, to) == bT \/ el > to

(* Mutant of WaitPass: the deadline leaves the parser state as it is.      *)
WaitPass_NoReset(p, bT, el, to, cbOn, cb) ==
    IF m_IsTimeout(bT, el, to)
    THEN [done |-> TRUE, rv |-> "Fail", ev |-> "timeout", p |-> p, cb |-> cb]
    ELSE LET r == m_Parse(p)
         IN CASE r.ret = "Parsing" ->
                   [done |-> FALSE, rv |-> "none", ev |-> r.ret, p |-> r.p, cb |-> cb]
              [] r.ret = "FinishedCmdResponse" ->
                   [done |-> TRUE, rv |-> "Ok", ev |-> r.ret, p |-> r.p, cb |-> cb]
              [] r.ret = "FinishedDrResponse" ->
                   [done |-> FALSE, rv |-> "none", ev |-> r.ret, p |-> r.p,
                    cb |-> IF cbOn
                           THEN Append(cb, CbEntry("Ok", "DataReceived", 0,
                                                   DrOf(r.p), r.p.drLen))
                           ELSE cb]
              [] OTHER ->
                   [done |-> TRUE, rv |-> "Fail", ev |-> r.ret, p |-> r.p, cb |-> cb]

(* Mutant of WaitPass: a data frame met while waiting is not handed on.    *)
WaitPass_DropsData(p, bT, el, to, cbOn, cb) ==
    IF m_IsTimeout(bT, el, to)
    THEN [done |-> TRUE, rv |-> "Fail", ev |-> "timeout",
          p |-> [p EXCEPT !.st = "Start"], cb |-> cb]
    ELSE LET r == m_Parse(p)
         IN CASE r.ret = "Parsing" ->
                   [done |-> FALSE, rv |-> "none", ev |-> r.ret, p |-> r.p, cb |-> cb]
              [] r.ret = "FinishedCmdResponse" ->
                   [done |-> TRUE, rv |-> "Ok", ev |-> r.ret, p |-> r.p, cb |-> cb]
              [] r.ret = "FinishedDrResponse" ->
                   [done |-> FALSE, rv |-> "none", ev |-> r.ret, p |-> r.p, cb |-> cb]
              [] OTHER ->
                   [done |-> TRUE, rv |-> "Fail", ev |-> r.ret, p |-> r.p, cb |-> cb]

(* One pass through the loop of m_WaitCmdResponse, from the test of        *)
(* m_IsTimeout to the delay, or out of the function.                       *)
WaitPass(p, bT, el, to, cbOn, cb) ==
    IF m_IsTimeout(bT, el, to)
    THEN [done |-> TRUE, rv |-> "Fail", ev |-> "timeout",
          p |-> [p EXCEPT !.st = "Start"], cb |-> cb]
    ELSE LET r == m_Parse(p)
         IN CASE r.ret = "Parsing" ->
                   [done |-> FALSE, rv |-> "none", ev |-> r.ret, p |-> r.p, cb |-> cb]
              [] r.ret = "FinishedCmdResponse" ->
                   [done |-> TRUE, rv |-> "Ok", ev |-> r.ret, p |-> r.p, cb |-> cb]
              [] r.ret = "FinishedDrResponse" ->
                   [done |-> FALSE, rv |-> "none", ev |-> r.ret, p |-> r.p,
                    cb |-> IF cbOn
                           THEN Append(cb, CbEntry("Ok", "DataReceived", 0,
                                                   DrOf(r.p), r.p.drLen))
                           ELSE cb]
              [] OTHER ->
                   [done |-> TRUE, rv |-> "Fail", ev |-> r.ret, p |-> r.p, cb |-> cb]

(* Mutant of m_DispatchCmdResponseAsync: every decoded reply is reported   *)
(* as a generic response, and a generic response is reported twice.        *)
m_DispatchCmdResponseAsync_WrongKind(p, exp, cbOn, cb) ==
    CASE exp = "SerialNumber" /\ cbOn ->
           LET d == m_HandleMessage_SN(p)
           IN [p |-> d.p,
               cb |-> Append(cb, CbEntry(d.rv, "GenericResponse", d.val, <<>>, 0))]
      [] exp = "MLR_Modem_DtIr" /\ cbOn ->
           LET d == m_HandleMessageHexByte(p, MLR_INFORMATION_RESPONSE_LEN,
                                           MLR_INFORMATION_RESPONSE_PREFIX)
           IN [p |-> d.p,
               cb |-> Append(cb, CbEntry(d.rv, "GenericResponse", d.val, <<>>, 0))]
      [] exp = "RssiCurrentChannel" /\ cbOn ->
           LET d == m_HandleMessage_RA(p)
           IN [p |-> d.p,
               cb |-> Append(cb, CbEntry(d.rv, "GenericResponse", d.val, <<>>, 0))]
      [] exp = "GenericResponse" /\ cbOn ->
           [p |-> p,
            cb |-> Append(Append(cb, CbEntry("Ok", exp, 0, RxOf(p), p.idx)),
                          CbEntry("Ok", exp, 0, RxOf(p), p.idx))]
      [] OTHER -> [p |-> p, cb |-> cb]

(* Mutant of m_DispatchCmdResponseAsync: a frame nobody expects is handed  *)
(* to the callback as a generic response.                                  *)
m_DispatchCmdResponseAsync_ReportsUnexpected(p, exp, cbOn, cb) ==
    CASE exp = "SerialNumber" /\ cbOn ->
           LET d == m_HandleMessage_SN(p)
           IN [p |-> d.p, cb |-> Append(cb, CbEntry(d.rv, exp, d.val, <<>>, 0))]
      [] exp = "MLR_Modem_DtIr" /\ cbOn ->
           LET d == m_HandleMessageHexByte(p, MLR_INFORMATION_RESPONSE_LEN,
                                           MLR_INFORMATION_RESPONSE_PREFIX)
           IN [p |-> d.p, cb |-> Append(cb, CbEntry(d.rv, exp, d.val, <<>>, 0))]
      [] exp = "RssiCurrentChannel" /\ cbOn ->
           LET d == m_HandleMessage_RA(p)
           IN [p |-> d.p, cb |-> Append(cb, CbEntry(d.rv, exp, d.val, <<>>, 0))]
      [] exp = "GenericResponse" /\ cbOn ->
           [p |-> p, cb |-> Append(cb, CbEntry("Ok", exp, 0, RxOf(p), p.idx))]
      [] exp = "Idle" /\ cbOn ->
           [p |-> p, cb |-> Append(cb, CbEntry("Ok", "GenericResponse", 0, RxOf(p), p.idx))]
      [] OTHER -> [p |-> p, cb |-> cb]

(* m_DispatchCmdResponseAsync for the pending expectation exp.             *)
m_DispatchCmdResponseAsync(p, exp, cbOn, cb) ==
    CASE exp = "SerialNumber" /\ cbOn ->
           LET d == m_HandleMessage_SN(p)
           IN [p |-> d.p, cb |-> Append(cb, CbEntry(d.rv, exp, d.val, <<>>, 0))]
      [] exp = "MLR_Modem_DtIr" /\ cbOn ->
           LET d == m_HandleMessageHexByte(p, MLR_INFORMATION_RESPONSE_LEN,
                                           MLR_INFORMATION_RESPONSE_PREFIX)
           IN [p |-> d.p, cb |-> Append(cb, CbEntry(d.rv, exp, d.val, <<>>, 0))]
      [] exp = "RssiCurrentChannel" /\ cbOn ->
           LET d == m_HandleMessage_RA(p)
           IN [p |-> d.p, cb |-> Append(cb, CbEntry(d.rv, exp, d.val, <<>>, 0))]
      [] exp = "GenericResponse" /\ cbOn ->
           [p |-> p, cb |-> Append(cb, CbEntry("Ok", exp, 0, RxOf(p), p.idx))]
      [] OTHER -> [p |-> p, cb |-> cb]

---------------------------------------------------------------------------
(* What an operation does once a wait of it has returned rv: either it     *)
(* starts its next wait or it returns.  c is the operation's record, p the *)
(* parser record after the wait.                                           *)
KWait(c, ms, p) ==
    [next |-> "wait", call |-> c, ms |-> ms, p |-> p, rv |-> "none",
     wrote |-> FALSE, val |-> 0, out |-> <<>>, mode |-> -1, pending |-> "same",
     clear |-> FALSE]

KRet(rv, wrote, val, p) ==
    [next |-> "return", call |-> NoCall, ms |-> 0, p |-> p, rv |-> rv,
     wrote |-> wrote, val |-> val, out |-> <<>>, mode |-> -1, pending |-> "same",
     clear |-> FALSE]

KDec(d) == KRet(d.rv, d.wrote, d.val, d.p)

DefaultMs == 500
LoRaTxMs == 15000
FskTxMs == 11

(* m_GetByteValue after its wait.                                          *)
After_GetByteValue(rv, p, respPrefix, respLen) ==
    IF rv = "Ok" THEN KDec(m_HandleMessageHexByte(p, respLen, respPrefix))
    ELSE KRet(rv, FALSE, 0, p)

(* Mutant of After_SetByteValue: the echoed value is not compared with the *)
(* requested one.                                                          *)
After_SetByteValue_NoCompare(c, rv, p, respPrefix, respLen) ==
    LET wr == m_HandleMessage_WR(p)
        again == c.step = 1 /\ rv = "Ok" /\ c.save
        rv1 == IF again THEN wr ELSE rv
        d == m_HandleMessageHexByte(p, respLen, respPrefix)
        rv2 == IF rv1 = "Ok" THEN d.rv ELSE rv1
    IN IF again /\ wr = "Ok"
       THEN KWait([c EXCEPT !.step = 2], DefaultMs, p)
       ELSE KRet(rv2, FALSE, 0, p)

(* m_SetByteValue after its first (c.step = 1) or second wait.             *)
After_SetByteValue(c, rv, p, respPrefix, respLen) ==
    LET wr == m_HandleMessage_WR(p)
        again == c.step = 1 /\ rv = "Ok" /\ c.save
        rv1 == IF again THEN wr ELSE rv
        d == m_HandleMessageHexByte(p, respLen, respPrefix)
        rv2 == IF rv1 = "Ok" THEN d.rv ELSE rv1
        rv3 == IF rv2 = "Ok" /\ d.val # c.val THEN "Fail" ELSE rv2
    IN IF again /\ wr = "Ok"
       THEN KWait([c EXCEPT !.step = 2], DefaultMs, p)
       ELSE KRet(rv3, FALSE, 0, p)

(* SetMode: m_SetByteValue, then the mode is cached and one line dropped.  *)
After_SetMode(c, rv, p) ==
    LET k == After_SetByteValue(c, rv, p, MLR_SET_MODE_RESPONSE_PREFIX,
                                MLR_SET_MODE_RESPONSE_LEN)
    IN IF k.next = "return" /\ k.rv = "Ok"
       THEN [k EXCEPT !.mode = c.val, !.clear = TRUE]
       ELSE k

After_GetUserID(rv, p) ==
    IF rv = "Ok"
    THEN KDec(m_HandleMessageHexWord(p, MLR_GET_USERID_RESPONSE_LEN,
                                     MLR_GET_USERID_RESPONSE_PREFIX))
    ELSE KRet(rv, FALSE, 0, p)

After_GetRssiLastRx(rv, p) ==
    IF rv = "Ok" THEN KDec(m_HandleMessage_RS(p)) ELSE KRet(rv, FALSE, 0, p)

After_GetRssiCurrentChannel(rv, p) ==
    IF rv = "Ok" THEN KDec(m_HandleMessage_RA(p)) ELSE KRet(rv, FALSE, 0, p)

After_GetSerialNumber(rv, p) ==
    IF rv = "Ok" THEN KDec(m_HandleMessage_SN(p)) ELSE KRet(rv, FALSE, 0, p)

(* Mutant of After_FactoryReset: any second frame is taken for *IZ=OK.     *)
After_FactoryReset_AnySecond(c, rv, p) ==
    IF c.step = 1
    THEN LET rv1 == IF rv = "Ok" THEN m_HandleMessage_WR(p) ELSE rv
         IN IF rv1 = "Ok" THEN KWait([c EXCEPT !.step = 2], DefaultMs, p)
            ELSE KRet(rv1, FALSE, 0, p)
    ELSE [KRet(rv, FALSE, 0, p) EXCEPT !.clear = (rv = "Ok")]

(* FactoryReset after its first (step 1) and its second wait.              *)
After_FactoryReset(c, rv, p) ==
    IF c.step = 1
    THEN LET rv1 == IF rv = "Ok" THEN m_HandleMessage_WR(p) ELSE rv
         IN IF rv1 = "Ok" THEN KWait([c EXCEPT !.step = 2], DefaultMs, p)
            ELSE KRet(rv1, FALSE, 0, p)
    ELSE LET rv2 == IF rv = "Ok" THEN m_HandleMessage_IZ(p) ELSE rv
         IN [KRet(rv2, FALSE, 0, p) EXCEPT !.clear = (rv2 = "Ok")]

(* Mutant of After_SendRawCommand: a response as long as the buffer is     *)
(* copied.                                                                 *)
After_SendRawCommand_OffByOne(c, rv, p) ==
    IF rv # "Ok" THEN KRet(rv, TRUE, 0, p)
    ELSE IF p.idx > c.size THEN KRet("BufferTooSmall", TRUE, 0, p)
    ELSE [KRet("Ok", TRUE, 0, p) EXCEPT !.out = RxOf(p)]

(* SendRawCommand after its wait: wrote says responseBuffer was written,   *)
(* out is the string it then holds.                                        *)
After_SendRawCommand(c, rv, p) ==
    IF rv # "Ok" THEN KRet(rv, TRUE, 0, p)
    ELSE IF p.idx >= c.size THEN KRet("BufferTooSmall", TRUE, 0, p)
    ELSE [KRet("Ok", TRUE, 0, p) EXCEPT !.out = RxOf(p)]

(* The check of the "*DT=" echo shared by both transmit operations.        *)
EchoCheck(c, rv, p) ==
    LET d == m_HandleMessageHexByte(p, MLR_TRANSMISSION_RESPONSE_LEN,
                                    MLR_TRANSMISSION_RESPONSE_PREFIX)
        rv1 == IF rv = "Ok" THEN d.rv ELSE rv
    IN IF rv1 = "Ok" /\ d.val # c.val THEN "Fail" ELSE rv1

(* Mutant of TransmitResult: the FSK branch maps the information response *)
(* the way the LoRa branch does.                                           *)
TransmitResult_FskLikeLoRa(rv, p, mode) ==
    LET d == m_HandleMessageHexByte(p, MLR_INFORMATION_RESPONSE_LEN,
                                    MLR_INFORMATION_RESPONSE_PREFIX)
    IN IF mode = LoRaCmd
       THEN LET rv1 == IF rv = "Ok" THEN d.rv ELSE rv
            IN IF rv1 # "Ok" THEN "Fail"
               ELSE IF d.val \in {MLR_INFORMATION_RESPONSE_ERR_OTHER_WAVES,
                                  MLR_INFORMATION_RESPONSE_ERR_NO_TX}
                    THEN "FailLbt" ELSE "Ok"
       ELSE IF rv # "Ok" THEN "Ok"
            ELSE IF d.rv # "Ok" THEN "Fail"
            ELSE IF d.val \in {MLR_INFORMATION_RESPONSE_ERR_OTHER_WAVES,
                               MLR_INFORMATION_RESPONSE_ERR_NO_TX}
                 THEN "FailLbt" ELSE "Ok"

(* TransmitData from "check if transmission has been completed" on.        *)
TransmitResult(rv, p, mode) ==
    LET d == m_HandleMessageHexByte(p, MLR_INFORMATION_RESPONSE_LEN,
                                    MLR_INFORMATION_RESPONSE_PREFIX)
    IN IF mode = LoRaCmd
       THEN LET rv1 == IF rv = "Ok" THEN d.rv ELSE rv
            IN IF rv1 # "Ok" THEN "Fail"
               ELSE IF d.val \in {MLR_INFORMATION_RESPONSE_ERR_OTHER_WAVES,
                                  MLR_INFORMATION_RESPONSE_ERR_NO_TX}
                    THEN "FailLbt" ELSE "Ok"
       ELSE IF rv # "Ok" THEN "Ok"
            ELSE IF d.rv # "Ok" THEN "Fail"
            ELSE IF d.val = MLR_INFORMATION_RESPONSE_ERR_NO_TX
                 THEN "FailLbt" ELSE "Ok"

(* Mutant of After_TransmitData: the information response is awaited with *)
(* the short timeout in every mode.                                        *)
After_TransmitData_ShortWait(c, rv, p, mode) ==
    IF c.step = 1
    THEN LET rv1 == EchoCheck(c, rv, p)
         IN IF rv1 = "Ok"
            THEN KWait([c EXCEPT !.step = 2], FskTxMs, p)
            ELSE KRet(TransmitResult(rv1, p, mode), FALSE, 0, p)
    ELSE KRet(TransmitResult(rv, p, mode), FALSE, 0, p)

After_TransmitData(c, rv, p, mode) ==
    IF c.step = 1
    THEN LET rv1 == EchoCheck(c, rv, p)
         IN IF rv1 = "Ok"
            THEN KWait([c EXCEPT !.step = 2],
                       IF mode = LoRaCmd THEN LoRaTxMs ELSE FskTxMs, p)
            ELSE KRet(TransmitResult(rv1, p, mode), FALSE, 0, p)
    ELSE KRet(TransmitResult(rv, p, mode), FALSE, 0, p)

(* Mutant of After_TransmitDataFireAndForget: the expectation is armed     *)
(* whatever the echo was.                                                  *)
After_TransmitDataFireAndForget_ArmsAlways(c, rv, p) ==
    LET rv1 == EchoCheck(c, rv, p)
    IN [KRet(rv1, FALSE, 0, p) EXCEPT !.pending = "MLR_Modem_DtIr"]

(* TransmitDataFireAndForget after its wait.                               *)
After_TransmitDataFireAndForget(c, rv, p) ==
    LET rv1 == EchoCheck(c, rv, p)
    IN IF rv1 = "Ok"
       THEN [KRet("Ok", FALSE, 0, p) EXCEPT !.pending = "MLR_Modem_DtIr"]
       ELSE KRet(rv1, FALSE, 0, p)

(* Mutant of After_begin: the mode is cached whatever the probe returned.  *)
After_begin_AlwaysCaches(rv, p) ==
    LET k == After_GetByteValue(rv, p, MLR_SET_MODE_RESPONSE_PREFIX,
                                MLR_SET_MODE_RESPONSE_LEN)
    IN [k EXCEPT !.mode = k.val]

(* begin after GetMode(&m_mode): m_HandleMessageHexByte stores the probed  *)
(* mode through the pointer only when it returns Ok.                       *)
After_begin(rv, p) ==
    LET k == After_GetByteValue(rv, p, MLR_SET_MODE_RESPONSE_PREFIX,
                                MLR_SET_MODE_RESPONSE_LEN)
    IN IF k.rv = "Ok" THEN [k EXCEPT !.mode = k.val] ELSE k

After(c, rv, p, mode) ==
    CASE c.op = "GetChannel" ->
           After_GetByteValue(rv, p, MLR_SET_CHANNEL_RESPONSE_PREFIX,
                              MLR_SET_CHANNEL_RESPONSE_LEN)
      [] c.op = "SetChannel" ->
           After_SetByteValue(c, rv, p, MLR_SET_CHANNEL_RESPONSE_PREFIX,
                              MLR_SET_CHANNEL_RESPONSE_LEN)
      [] c.op = "SetSpreadFactor" ->
           After_SetByteValue(c, rv, p, MLR_SET_SF_RESPONSE_PREFIX,
                              MLR_SET_SF_RESPONSE_LEN)
      [] c.op = "SetBaudRate" ->
           After_SetByteValue(c, rv, p, MLR_SET_BAUDRATE_RESPONSE_PREFIX,
                              MLR_SET_BAUDRATE_RESPONSE_LEN)
      [] c.op = "SetMode" -> After_SetMode(c, rv, p)
      [] c.op = "GetMode" ->
           After_GetByteValue(rv, p, MLR_SET_MODE_RESPONSE_PREFIX,
                              MLR_SET_MODE_RESPONSE_LEN)
      [] c.op = "begin" -> After_begin(rv, p)
      [] c.op = "GetUserID" -> After_GetUserID(rv, p)
      [] c.op = "GetRssiLastRx" -> After_GetRssiLastRx(rv, p)
      [] c.op = "GetRssiCurrentChannel" -> After_GetRssiCurrentChannel(rv, p)
      [] c.op = "GetSerialNumber" -> After_GetSerialNumber(rv, p)
      [] c.op = "FactoryReset" -> After_FactoryReset(c, rv, p)
      [] c.op = "SendRawCommand" -> After_SendRawCommand(c, rv, p)
      [] c.op = "TransmitData" -> After_TransmitData(c, rv, p, mode)
      [] c.op = "TransmitDataFireAndForget" ->
           After_TransmitDataFireAndForget(c, rv, p)

---------------------------------------------------------------------------
(* The modem.  It answers each request the driver writes with one reply    *)
(* out of a menu: the expected frames, nothing, or the expected frames     *)
(* spoilt in one way.  The bytes of the reply are appended to `wire` and   *)
(* arrive later, in pieces.                                                *)

(* Bounds of the driver specification.                                     *)
MaxCalls == 1       \* requests written to the modem in one behaviour
TickMs == 300       \* time one pass of a wait loop takes (delay and idling)
HeadLen == 5        \* bytes arriving together: HeadLen, or all there is
MaxUnsolicited == 1 \* data frames the modem sends unasked

(* snprintf "%02X" of a uint8_t.                                           *)
Fmt02X(v) == <<HexDigitUpper(v \div 16), HexDigitUpper(v % 16)>>

RECURSIVE Lines(_)
Lines(F) == IF F = <<>> THEN <<>> ELSE Head(F) \o CRLF \o Lines(Tail(F))

DrFrame(pl) == <<STAR, ChD, ChR, EQ>> \o Fmt02X(Len(pl)) \o pl \o CRLF

Payload1 == <<72, 105>>                 \* "Hi"
Payload2 == <<33>>                      \* "!"
WrongFrame == <<42, 88, 89, 61, 48, 90>>            \* "*XY=0Z"
OverFrame == <<42, 67, 72, 61>> \o [i \in 1..(RxSize - 3) |-> 48]
ModeLine == <<76, 79, 82, 65, 13, 10>>              \* "LORA\r\n"

Reply(kind, bytes, frames, drs) ==
    [kind |-> kind, bytes |-> bytes, frames |-> frames, drs |-> drs]

(* The replies to a request whose expected frames are F, followed by the   *)
(* text line T (empty when the modem prints none).                         *)
Menu(F, T) ==
    LET good == Lines(F) \o T
    IN { Reply("good", good, F, <<>>),
         Reply("silence", <<>>, <<>>, <<>>),
         Reply("garbage", <<FillByte, CR, LF>> \o good, F, <<>>),
         Reply("partial", <<STAR, 67>> \o good, F, <<>>),
         Reply("data", DrFrame(Payload1) \o DrFrame(Payload2) \o good, F,
               <<Payload1, Payload2>>),
         Reply("over", Lines(<<OverFrame>>), <<>>, <<>>),
         Reply("cut", SubSeq(good, 1, 5), <<>>, <<>>),
         Reply("wrong", Lines(<<WrongFrame>>), <<WrongFrame>>, <<>>) }

(* Only the first of two expected frames.                                  *)
Half(F) == { Reply("half", Lines(<<F[1]>>), <<F[1]>>, <<>>) }

FrameCH(v) == MLR_SET_CHANNEL_RESPONSE_PREFIX \o Fmt02X(v)
FrameMO(v) == MLR_SET_MODE_RESPONSE_PREFIX \o Fmt02X(v)
FrameDT(v) == MLR_TRANSMISSION_RESPONSE_PREFIX \o Fmt02X(v)
FrameIR(v) == MLR_INFORMATION_RESPONSE_PREFIX \o Fmt02X(v)
FrameUI == MLR_GET_USERID_RESPONSE_PREFIX \o <<49, 50, 65, 66>>        \* 12AB
FrameRS == MLR_GET_RSSI_LAST_RX_RESPONSE_PREFIX \o <<45, 49, 50, 100, 66, 109>>
FrameRA == MLR_GET_RSSI_CURRENT_CHANNEL_RESPONSE_PREFIX
              \o <<45, 49, 50, 51, 100, 66, 109>>
FrameSN == MLR_GET_SERIAL_NUMBER_RESPONSE_PREFIX
              \o <<65, 49, 50, 51, 52, 53, 54, 55>>                    \* A1234567
FrameFV == <<42, 70, 86, 61, 49, 46, 48>>                              \* "*FV=1.0"
RawCommand == <<64, 70, 86, 13, 10>>                                   \* "@FV\r\n"

FrameIZNG == <<42, 73, 90, 61, 78, 71>>                                \* "*IZ=NG"

WithSave(c, F) == IF c.save THEN <<MLR_WRITE_VALUE_RESPONSE_PREFIX>> \o F ELSE F

Replies(c) ==
    CASE c.op = "GetChannel" -> Menu(<<FrameCH(10)>>, <<>>)
      [] c.op = "SetChannel" ->
           Menu(WithSave(c, <<FrameCH(c.val)>>), <<>>)
           \cup { Reply("other", Lines(WithSave(c, <<FrameCH(c.val + 1)>>)),
                        WithSave(c, <<FrameCH(c.val + 1)>>), <<>>) }
           \cup (IF c.save THEN Half(WithSave(c, <<FrameCH(c.val)>>)) ELSE {})
      [] c.op = "SetMode" -> Menu(<<FrameMO(c.val)>>, ModeLine)
      [] c.op \in {"GetMode", "begin"} ->
           Menu(<<FrameMO(FskCmd)>>, <<>>) \cup Menu(<<FrameMO(LoRaCmd)>>, <<>>)
      [] c.op = "SetSpreadFactor" ->
           Menu(<<MLR_SET_SF_RESPONSE_PREFIX \o Fmt02X(c.val)>>, <<>>)
      [] c.op = "SetBaudRate" ->
           Menu(<<MLR_SET_BAUDRATE_RESPONSE_PREFIX \o Fmt02X(c.val)>>, <<>>)
      [] c.op = "GetUserID" -> Menu(<<FrameUI>>, <<>>)
      [] c.op = "GetRssiLastRx" -> Menu(<<FrameRS>>, <<>>)
      [] c.op \in {"GetRssiCurrentChannel", "GetRssiCurrentChannelAsync"} ->
           Menu(<<FrameRA>>, <<>>)
      [] c.op \in {"GetSerialNumber", "GetSerialNumberAsync"} ->
           Menu(<<FrameSN>>, <<>>)
      [] c.op = "FactoryReset" ->
           Menu(<<MLR_WRITE_VALUE_RESPONSE_PREFIX, MLR_SET_IZ_RESPONSE_PREFIX_OK>>,
                ModeLine)
           \cup Half(<<MLR_WRITE_VALUE_RESPONSE_PREFIX>>)
           \cup { Reply("nack", Lines(F), F, <<>>) :
                    F \in {<<MLR_WRITE_VALUE_RESPONSE_PREFIX, FrameIZNG>>,
                           <<MLR_SET_IZ_RESPONSE_PREFIX_OK,
                             MLR_WRITE_VALUE_RESPONSE_PREFIX>>,
                           <<FrameIZNG, MLR_SET_IZ_RESPONSE_PREFIX_OK>>} }
      [] c.op \in {"SendRawCommand", "SendRawCommandAsync"} ->
           Menu(<<FrameFV>>, <<>>)
      [] c.op \in {"TransmitData", "TransmitDataFireAndForget"} ->
           Menu(<<FrameDT(c.val), FrameIR(3)>>, <<>>)
           \cup Half(<<FrameDT(c.val)>>)
           \cup { Reply("lbt", Lines(<<FrameDT(c.val), FrameIR(v)>>),
                        <<FrameDT(c.val), FrameIR(v)>>, <<>>) : v \in {1, 2} }
           \cup { Reply("other", Lines(<<FrameDT(c.val + 1)>>),
                        <<FrameDT(c.val + 1)>>, <<>>),
                  Reply("badinfo", Lines(<<FrameDT(c.val), WrongFrame>>),
                        <<FrameDT(c.val), WrongFrame>>, <<>>) }

---------------------------------------------------------------------------
(* The public operations.  A synchronous operation is called in one step,  *)
(* which takes it up to its first wait; WaitStep then runs the wait loop   *)
(* one pass at a time and, when a wait returns, the operation up to its    *)
(* next wait or its return.                                                *)

(* What is known of the byte stream when a request is written: it is    *)
(* clean when the parser is between frames and the bytes still to be read  *)
(* are whole data frames, whose payloads are DataAhead.                    *)
AheadSeqs ==
    {<<>>, <<Payload1>>, <<Payload2>>, <<Payload1, Payload2>>}

DrFrames(s) ==
    IF s = <<>> THEN <<>>
    ELSE IF Len(s) = 1 THEN DrFrame(s[1])
    ELSE DrFrame(s[1]) \o DrFrame(s[2])

StreamClean ==
    /\ m_parserState = "Start"
    /\ m_oneByteBuf = -1
    /\ \E s \in AheadSeqs : uart \o wire = DrFrames(s)

DataAhead == CHOOSE s \in AheadSeqs : uart \o wire = DrFrames(s)

(* An operation can be called when none is in progress.  Calls that write *)
(* a request are counted, and MaxCalls bounds them: once they are written  *)
(* operations are called only while an expectation is pending, and what    *)
(* such a call does is for the operation to decide.                        *)
MayIssue == calls < MaxCalls \/ m_asyncExpectedResponse # "Idle"
Callable == call.op = "none" /\ MayIssue

NewCall(op, arg, val, save, size) ==
    [op |-> op, arg |-> arg, step |-> 1, val |-> val, save |-> save, size |-> size]

(* m_StartTimeout(ms)                                                      *)
m_StartTimeout(ms) ==
    /\ bTimeout' = FALSE
    /\ elapsed' = 0
    /\ timeOut' = ms

(* Mutant of Reject: an operation that refuses its arguments has already   *)
(* reset the parser.                                                       *)
Reject_ResetsParser(op, arg, rv) ==
    /\ ret' = [NoRet EXCEPT !.op = op, !.arg = arg, !.rv = rv]
    /\ Commit(IF rv = "InvalidArg" THEN [m_ResetParser(PState) EXCEPT !.idx = 0]
              ELSE PState)
    /\ UNCHANGED <<wire, script, histVars, m_asyncExpectedResponse,
                   m_mode, m_pCallback, bTimeout, timeOut, elapsed, tx, call,
                   cbLog, lastWait, calls, sent>>

(* An operation that returns rv before it has done anything.               *)
Reject(op, arg, rv) ==
    /\ ret' = [NoRet EXCEPT !.op = op, !.arg = arg, !.rv = rv]
    /\ UNCHANGED <<parserVars, envVars, histVars, m_asyncExpectedResponse,
                   m_mode, m_pCallback, bTimeout, timeOut, elapsed, tx, call,
                   cbLog, lastWait, calls, sent>>

(* A synchronous operation writes req and enters m_WaitCmdResponse(ms).    *)
Issue(c, req, ms) ==
    /\ MayIssue
    /\ tx' = tx \o req
    /\ \E r \in Replies(c) : wire' = wire \o r.bytes /\ script' = r
    /\ m_StartTimeout(ms)
    /\ call' = c
    /\ ret' = NoRet
    /\ calls' = calls + 1
    /\ lastRet' = "none"
    /\ lastWait' = [NoWait EXCEPT !.clean = StreamClean,
                                  !.due = IF StreamClean THEN DataAhead ELSE <<>>,
                                  !.cb0 = Len(cbLog),
                                  !.req = req]
    /\ UNCHANGED <<parserVars, uart, events, m_asyncExpectedResponse, m_mode,
                   m_pCallback, cbLog, sent>>

(* An asynchronous operation writes req and records its expectation.       *)
IssueAsync(op, arg, req, exp) ==
    /\ MayIssue
    /\ tx' = tx \o req
    /\ \E r \in Replies(NewCall(op, arg, 0, FALSE, 0)) :
          wire' = wire \o r.bytes /\ script' = r
    /\ m_asyncExpectedResponse' = exp
    /\ ret' = [NoRet EXCEPT !.op = op, !.arg = arg, !.rv = "Ok"]
    /\ calls' = calls + 1
    /\ lastWait' = NoWait
    /\ UNCHANGED <<parserVars, uart, histVars, m_mode, m_pCallback, call,
                   cbLog, sent>>

Busy == m_asyncExpectedResponse # "Idle"

(* Mutant of m_GetByteValue: the request is written whatever is pending.   *)
m_GetByteValue_NoBusyCheck(op, arg, cmdString) ==
    Issue(NewCall(op, arg, 0, FALSE, 0), cmdString, DefaultMs)

m_GetByteValue(op, arg, cmdString) ==
    IF Busy THEN Reject(op, arg, "Busy")
    ELSE Issue(NewCall(op, arg, 0, FALSE, 0), cmdString, DefaultMs)

m_SetByteValue(op, arg, cmdPrefix, value, saveValue) ==
    IF Busy THEN Reject(op, arg, "Busy")
    ELSE Issue(NewCall(op, arg, value, saveValue, 0),
               cmdPrefix \o Fmt02X(value)
                  \o (IF saveValue THEN <<47, 87>> ELSE <<>>) \o CRLF,
               DefaultMs)

(* Arguments the operations are called with.                               *)
ChannelArgs == {5, 10, 47}
ModeArgs == {FskBin, LoRaBin, LoRaCmd}
SfArgs == {2, 6}
BaudArgs == {1000, 19200}
BufferSizes == {0, 4, Len(FrameFV), Len(FrameFV) + 1, 32}
MsgLens == {0, Len(Payload1)}

GetChannel ==
    /\ Callable
    /\ m_GetByteValue("GetChannel", 0, MLR_GET_CHANNEL_STRING)

SetChannel ==
    /\ Callable
    /\ \E channel \in ChannelArgs, saveValue \in BOOLEAN :
          IF channel < MLR_SET_CHANNEL_MIN_VALUE_JP
             \/ channel > MLR_SET_CHANNEL_MAX_VALUE_JP
          THEN Reject("SetChannel", channel, "InvalidArg")
          ELSE m_SetByteValue("SetChannel", channel, MLR_SET_CHANNEL_PREFIX_STRING,
                              channel, saveValue)

SetMode ==
    /\ Callable
    /\ \E mode \in ModeArgs :
          IF mode = FskBin \/ mode = LoRaBin
          THEN Reject("SetMode", mode, "InvalidArg")
          ELSE m_SetByteValue("SetMode", mode, MLR_SET_MODE_PREFIX_STRING, mode,
                              FALSE)

GetMode ==
    /\ Callable
    /\ m_GetByteValue("GetMode", 0, MLR_GET_MODE_STRING)

(* begin(pUart, pCallback) up to the wait of its GetMode(&m_mode).  The    *)
(* stream is the one already in use, and begin is called before any other  *)
(* request is written.                                                     *)
begin ==
    /\ call.op = "none"
    /\ calls = 0
    /\ \E pCallback \in BOOLEAN :
          /\ m_asyncExpectedResponse' = "Idle"
          /\ m_pCallback' = pCallback
          /\ Commit(m_ResetParser([PState EXCEPT !.idx = 0, !.st = "Start",
                                                 !.drPresent = FALSE,
                                                 !.drLen = 0]))
          /\ tx' = tx \o MLR_GET_MODE_STRING
          /\ \E r \in Replies(NewCall("begin", 0, 0, FALSE, 0)) :
                wire' = wire \o r.bytes /\ script' = r
          /\ m_StartTimeout(DefaultMs)
          /\ call' = NewCall("begin", 0, 0, FALSE, 0)
          /\ ret' = NoRet
          /\ calls' = calls + 1
          /\ lastRet' = "none"
          /\ lastWait' = [NoWait EXCEPT !.clean = StreamClean,
                                        !.due = IF StreamClean THEN DataAhead
                                                ELSE <<>>,
                                        !.cb0 = Len(cbLog),
                                        !.req = MLR_GET_MODE_STRING]
          /\ UNCHANGED <<events, m_mode, cbLog, sent>>

SetSpreadFactor ==
    /\ Callable
    /\ \E sf \in SfArgs :
          IF sf < MLR_SET_SF_MIN_VALUE \/ sf > MLR_SET_SF_MAX_VALUE
          THEN Reject("SetSpreadFactor", sf, "InvalidArg")
          ELSE m_SetByteValue("SetSpreadFactor", sf, MLR_SET_SF_PREFIX_STRING,
                              sf, FALSE)

(* The switch of SetBaudRate.                                              *)
BaudCode(baudRate) ==
    CASE baudRate = 1200 -> 18
      [] baudRate = 2400 -> 36
      [] baudRate = 4800 -> 72
      [] baudRate = 9600 -> 150
      [] baudRate = 19200 -> 25
      [] OTHER -> -1

SetBaudRate ==
    /\ Callable
    /\ \E baudRate \in BaudArgs :
          IF BaudCode(baudRate) = -1
          THEN Reject("SetBaudRate", baudRate, "InvalidArg")
          ELSE m_SetByteValue("SetBaudRate", baudRate,
                              MLR_SET_BAUDRATE_PREFIX_STRING, BaudCode(baudRate),
                              FALSE)

GetUserID ==
    /\ Callable
    /\ IF Busy THEN Reject("GetUserID", 0, "Busy")
       ELSE Issue(NewCall("GetUserID", 0, 0, FALSE, 0), MLR_GET_USERID_STRING,
                  DefaultMs)

GetRssiLastRx ==
    /\ Callable
    /\ IF Busy THEN Reject("GetRssiLastRx", 0, "Busy")
       ELSE Issue(NewCall("GetRssiLastRx", 0, 0, FALSE, 0),
                  MLR_GET_RSSI_LAST_RX_STRING, DefaultMs)

GetRssiCurrentChannel ==
    /\ Callable
    /\ IF Busy THEN Reject("GetRssiCurrentChannel", 0, "Busy")
       ELSE Issue(NewCall("GetRssiCurrentChannel", 0, 0, FALSE, 0),
                  MLR_GET_RSSI_CURRENT_CHANNEL_STRING, DefaultMs)

GetSerialNumber ==
    /\ Callable
    /\ IF Busy THEN Reject("GetSerialNumber", 0, "Busy")
       ELSE Issue(NewCall("GetSerialNumber", 0, 0, FALSE, 0),
                  MLR_GET_SERIAL_NUMBER_STRING, DefaultMs)

FactoryReset ==
    /\ Callable
    /\ IF Busy THEN Reject("FactoryReset", 0, "Busy")
       ELSE Issue(NewCall("FactoryReset", 0, 0, FALSE, 0), MLR_SET_IZ_STRING,
                  DefaultMs)

(* command is RawCommand and the response buffer has bufferSize bytes.     *)
SendRawCommand ==
    /\ Callable
    /\ \E bufferSize \in BufferSizes :
          IF bufferSize = 0 THEN Reject("SendRawCommand", bufferSize, "InvalidArg")
          ELSE IF Busy THEN Reject("SendRawCommand", bufferSize, "Busy")
          ELSE Issue(NewCall("SendRawCommand", bufferSize, 0, FALSE, bufferSize),
                     RawCommand, DefaultMs)

(* command is RawCommand, or a null pointer (cmdLen = -1).                 *)
SendRawCommandAsync ==
    /\ Callable
    /\ \E cmdLen \in {-1, Len(RawCommand)} :
          IF cmdLen = -1 THEN Reject("SendRawCommandAsync", cmdLen, "InvalidArg")
          ELSE IF Busy THEN Reject("SendRawCommandAsync", cmdLen, "Busy")
          ELSE /\ IssueAsync("SendRawCommandAsync", cmdLen, RawCommand,
                             "GenericResponse")
               /\ m_StartTimeout(DefaultMs)

(* The bytes both transmit operations write for the message Payload1.      *)
TransmitBytes(len) ==
    MLR_TRANSMISSION_PREFIX_STRING \o Fmt02X(len) \o SubSeq(Payload1, 1, len) \o CRLF

TransmitData ==
    /\ Callable
    /\ IF Busy THEN Reject("TransmitData", Len(Payload1), "Busy")
       ELSE Issue(NewCall("TransmitData", Len(Payload1), Len(Payload1), FALSE, 0),
                  TransmitBytes(Len(Payload1)), DefaultMs)

TransmitDataFireAndForget ==
    /\ Callable
    /\ \E len \in MsgLens :
          IF len = 0 THEN Reject("TransmitDataFireAndForget", len, "InvalidArg")
          ELSE IF Busy THEN Reject("TransmitDataFireAndForget", len, "Busy")
          ELSE Issue(NewCall("TransmitDataFireAndForget", len, len, FALSE, 0),
                     TransmitBytes(len), DefaultMs)

GetRssiCurrentChannelAsync ==
    /\ Callable
    /\ IF Busy THEN Reject("GetRssiCurrentChannelAsync", 0, "Busy")
       ELSE /\ IssueAsync("GetRssiCurrentChannelAsync", 0,
                          MLR_GET_RSSI_CURRENT_CHANNEL_STRING, "RssiCurrentChannel")
            /\ UNCHANGED <<bTimeout, timeOut, elapsed>>

(* Mutant of GetSerialNumberAsync: the request is written whatever is     *)
(* pending.                                                                *)
GetSerialNumberAsync_NoBusyCheck ==
    /\ Callable
    /\ IssueAsync("GetSerialNumberAsync", 0, MLR_GET_SERIAL_NUMBER_STRING,
                  "SerialNumber")
    /\ UNCHANGED <<bTimeout, timeOut, elapsed>>

GetSerialNumberAsync ==
    /\ Callable
    /\ IF Busy THEN Reject("GetSerialNumberAsync", 0, "Busy")
       ELSE /\ IssueAsync("GetSerialNumberAsync", 0, MLR_GET_SERIAL_NUMBER_STRING,
                          "SerialNumber")
            /\ UNCHANGED <<bTimeout, timeOut, elapsed>>

(* m_ClearOneLine: readStringUntil('\n') with a timeout of ClearLineMs,    *)
(* straight from the transport (the lookahead is not consulted).  It takes *)
(* what has arrived, and what arrives while it blocks, through the first   *)
(* LF; without an LF it takes everything and times out.  The result is the *)
(* set of possible outcomes for the transport u and the modem's backlog w. *)
ClearLineMs == 500

FirstLF(q) ==
    IF \E i \in 1..Len(q) : q[i] = LF
    THEN CHOOSE i \in 1..Len(q) : q[i] = LF /\ \A j \in 1..(i - 1) : q[j] # LF
    ELSE 0

m_ClearOneLine(u, w) ==
    LET ks == IF FirstLF(u) > 0 THEN {0}
              ELSE {0, IF FirstLF(w) > 0 THEN FirstLF(w) ELSE Len(w)}
    IN { LET avail == u \o SubSeq(w, 1, k)
             j == FirstLF(avail)
         IN [uart |-> IF j > 0 THEN SubSeq(avail, j + 1, Len(avail)) ELSE <<>>,
             wire |-> SubSeq(w, k + 1, Len(w)),
             waited |-> IF j > 0 THEN 0 ELSE ClearLineMs] : k \in ks }

(* Mutant of WaitStep: a data frame met while waiting restarts the timer. *)
WaitStep_DataRestartsTimer ==
    /\ call.op # "none"
    /\ \E w \in {WaitPass(PState, bTimeout, elapsed, timeOut, m_pCallback, cbLog)} :
       \E k \in {IF w.done THEN After(call, w.rv, w.p, m_mode)
                  ELSE KWait(call, timeOut, w.p)} :
          /\ cbLog' = w.cb
          /\ lastRet' = IF k.next = "wait" /\ w.done THEN "none" ELSE w.ev
          /\ IF ~w.done
             THEN /\ Commit(w.p)
                  /\ elapsed' = IF w.ev = "FinishedDrResponse" THEN 0
                                ELSE IF uart = <<>> THEN elapsed + TickMs ELSE elapsed
                  /\ ret' = NoRet
                  /\ UNCHANGED <<bTimeout, timeOut, wire, call, lastWait,
                                 m_mode, m_asyncExpectedResponse>>
             ELSE /\ lastWait' = [lastWait EXCEPT
                                    !.rv = w.rv, !.ev = w.ev, !.at = elapsed,
                                    !.ms = timeOut, !.st = w.p.st,
                                    !.frame = IF w.rv = "Ok" THEN RxOf(w.p) ELSE <<>>,
                                    !.data = SubSeq(w.cb, lastWait.cb0 + 1,
                                                    Len(w.cb)),
                                    !.got = IF w.rv = "Ok"
                                            THEN Append(lastWait.got, RxOf(w.p))
                                            ELSE lastWait.got,
                                    !.waits = lastWait.waits + 1]
                  /\ call' = k.call
                  /\ IF k.next = "wait"
                     THEN /\ Commit(k.p)
                          /\ m_StartTimeout(k.ms)
                          /\ ret' = NoRet
                          /\ UNCHANGED <<wire, m_mode, m_asyncExpectedResponse>>
                     ELSE /\ ret' = [op |-> call.op, arg |-> call.arg, rv |-> k.rv,
                                     wrote |-> k.wrote,
                                     val |-> k.val, out |-> k.out]
                          /\ m_mode' = IF k.mode = -1 THEN m_mode ELSE k.mode
                          /\ m_asyncExpectedResponse' =
                                IF k.pending = "same" THEN m_asyncExpectedResponse
                                ELSE k.pending
                          /\ bTimeout' = (bTimeout \/ w.ev = "timeout")
                          /\ timeOut' = timeOut
                          /\ \E o \in (IF k.clear
                                       THEN m_ClearOneLine(k.p.uart, wire)
                                       ELSE {[uart |-> k.p.uart, wire |-> wire,
                                              waited |-> 0]}) :
                                /\ Commit([k.p EXCEPT !.uart = o.uart])
                                /\ wire' = o.wire
                                /\ elapsed' = elapsed + o.waited
    /\ UNCHANGED <<script, events, m_pCallback, tx, calls, sent>>

(* One pass of the wait loop of the operation in progress.  The delay(1)  *)
(* of a pass that had bytes to read is below the resolution of the clock   *)
(* of the model; a pass that found the transport empty stands for the run  *)
(* of such passes that lasts TickMs.                                       *)
WaitStep ==
    /\ call.op # "none"
    /\ \E w \in {WaitPass(PState, bTimeout, elapsed, timeOut, m_pCallback, cbLog)} :
       \E k \in {IF w.done THEN After(call, w.rv, w.p, m_mode)
                  ELSE KWait(call, timeOut, w.p)} :
          /\ cbLog' = w.cb
          /\ lastRet' = IF k.next = "wait" /\ w.done THEN "none" ELSE w.ev
          /\ IF ~w.done
             THEN /\ Commit(w.p)
                  /\ elapsed' = IF uart = <<>> THEN elapsed + TickMs ELSE elapsed
                  /\ ret' = NoRet
                  /\ UNCHANGED <<bTimeout, timeOut, wire, call, lastWait,
                                 m_mode, m_asyncExpectedResponse>>
             ELSE /\ lastWait' = [lastWait EXCEPT
                                    !.rv = w.rv, !.ev = w.ev, !.at = elapsed,
                                    !.ms = timeOut, !.st = w.p.st,
                                    !.frame = IF w.rv = "Ok" THEN RxOf(w.p) ELSE <<>>,
                                    !.data = SubSeq(w.cb, lastWait.cb0 + 1,
                                                    Len(w.cb)),
                                    !.got = IF w.rv = "Ok"
                                            THEN Append(lastWait.got, RxOf(w.p))
                                            ELSE lastWait.got,
                                    !.waits = lastWait.waits + 1]
                  /\ call' = k.call
                  /\ IF k.next = "wait"
                     THEN /\ Commit(k.p)
                          /\ m_StartTimeout(k.ms)
                          /\ ret' = NoRet
                          /\ UNCHANGED <<wire, m_mode, m_asyncExpectedResponse>>
                     ELSE /\ ret' = [op |-> call.op, arg |-> call.arg, rv |-> k.rv,
                                     wrote |-> k.wrote,
                                     val |-> k.val, out |-> k.out]
                          /\ m_mode' = IF k.mode = -1 THEN m_mode ELSE k.mode
                          /\ m_asyncExpectedResponse' =
                                IF k.pending = "same" THEN m_asyncExpectedResponse
                                ELSE k.pending
                          /\ bTimeout' = (bTimeout \/ w.ev = "timeout")
                          /\ timeOut' = timeOut
                          /\ \E o \in (IF k.clear
                                       THEN m_ClearOneLine(k.p.uart, wire)
                                       ELSE {[uart |-> k.p.uart, wire |-> wire,
                                              waited |-> 0]}) :
                                /\ Commit([k.p EXCEPT !.uart = o.uart])
                                /\ wire' = o.wire
                                /\ elapsed' = elapsed + o.waited
    /\ UNCHANGED <<script, events, m_pCallback, tx, calls, sent>>

(* Mutant of Work: a completed data frame ends the pending expectation.    *)
Work_DataEndsExpectation ==
    /\ call.op = "none"
    /\ \E r \in {m_Parse(PState)} :
          /\ lastRet' = r.ret
          /\ CASE r.ret = "FinishedCmdResponse" ->
                    \E d \in {m_DispatchCmdResponseAsync(r.p, m_asyncExpectedResponse,
                                                         m_pCallback, cbLog)} :
                       /\ Commit(d.p)
                       /\ cbLog' = d.cb
                       /\ m_asyncExpectedResponse' = "Idle"
               [] r.ret = "FinishedDrResponse" ->
                    /\ Commit(r.p)
                    /\ cbLog' = IF m_pCallback
                                THEN Append(cbLog, CbEntry("Ok", "DataReceived", 0,
                                                           DrOf(r.p), r.p.drLen))
                                ELSE cbLog
                    /\ m_asyncExpectedResponse' = "Idle"
               [] OTHER ->
                    /\ Commit(r.p)
                    /\ UNCHANGED <<cbLog, m_asyncExpectedResponse>>
    /\ ret' = NoRet
    /\ UNCHANGED <<wire, script, events, m_mode, m_pCallback, bTimeout, timeOut,
                   elapsed, tx, call, lastWait, calls, sent>>

(* Work()                                                                  *)
Work ==
    /\ call.op = "none"
    /\ \E r \in {m_Parse(PState)} :
          /\ lastRet' = r.ret
          /\ CASE r.ret = "FinishedCmdResponse" ->
                    \E d \in {m_DispatchCmdResponseAsync(r.p, m_asyncExpectedResponse,
                                                         m_pCallback, cbLog)} :
                       /\ Commit(d.p)
                       /\ cbLog' = d.cb
                       /\ m_asyncExpectedResponse' = "Idle"
               [] r.ret = "FinishedDrResponse" ->
                    /\ Commit(r.p)
                    /\ cbLog' = IF m_pCallback
                                THEN Append(cbLog, CbEntry("Ok", "DataReceived", 0,
                                                           DrOf(r.p), r.p.drLen))
                                ELSE cbLog
                    /\ UNCHANGED m_asyncExpectedResponse
               [] OTHER ->
                    /\ Commit(r.p)
                    /\ UNCHANGED <<cbLog, m_asyncExpectedResponse>>
    /\ ret' = NoRet
    /\ UNCHANGED <<wire, script, events, m_mode, m_pCallback, bTimeout, timeOut,
                   elapsed, tx, call, lastWait, calls, sent>>

(* The next HeadLen bytes of the modem's backlog, or a whole burst, reach  *)
(* the transport.                                                          *)
Deliver ==
    /\ uart = <<>>
    /\ wire # <<>>
    /\ \E k \in {Min(HeadLen, Len(wire)), Min(MaxBurst, Len(wire))} :
          /\ uart' = SubSeq(wire, 1, k)
          /\ wire' = SubSeq(wire, k + 1, Len(wire))
    /\ ret' = NoRet
    /\ UNCHANGED <<parserVars, script, histVars, m_asyncExpectedResponse, m_mode,
                   m_pCallback, bTimeout, timeOut, elapsed, tx, call, cbLog,
                   lastWait, calls, sent>>

(* The modem sends a data frame nobody asked for, before the driver has    *)
(* written a request: the first carries Payload1, later ones Payload2.     *)
Unsolicited ==
    /\ sent < MaxUnsolicited
    /\ calls = 0
    /\ call.op = "none"
    /\ wire' = wire \o DrFrame(IF sent = 0 THEN Payload1 ELSE Payload2)
    /\ sent' = sent + 1
    /\ ret' = NoRet
    /\ UNCHANGED <<parserVars, uart, script, histVars, m_asyncExpectedResponse,
                   m_mode, m_pCallback, bTimeout, timeOut, elapsed, tx, call,
                   cbLog, lastWait, calls>>

(* What begin() cached as the modem's mode, and whether it was given a     *)
(* callback.                                                               *)
InitConfigs == {<<FskCmd, TRUE>>, <<LoRaCmd, TRUE>>, <<FskCmd, FALSE>>}

Init ==
    /\ ParserInit
    /\ DriverInit
    /\ \E cfg \in InitConfigs : m_mode = cfg[1] /\ m_pCallback = cfg[2]
    /\ script = Reply("none", <<>>, <<>>, <<>>)
    /\ wire = <<>>
    /\ uart = <<>>
    /\ lastRet = "none"
    /\ events = <<>>

Next ==
    \/ GetChannel
    \/ SetChannel
    \/ SetMode
    \/ SetSpreadFactor
    \/ SetBaudRate
    \/ GetUserID
    \/ GetRssiLastRx
    \/ GetRssiCurrentChannel
    \/ GetSerialNumber
    \/ FactoryReset
    \/ SendRawCommand
    \/ SendRawCommandAsync
    \/ TransmitData
    \/ TransmitDataFireAndForget
    \/ GetRssiCurrentChannelAsync
    \/ GetSerialNumberAsync
    \/ WaitStep
    \/ Work
    \/ Deliver
    \/ Unsolicited

Spec == Init /\ [][Next]_vars

(* The driver with begin called again and the mode read back.              *)
NextMode ==
    \/ begin
    \/ GetMode
    \/ GetChannel
    \/ SetChannel
    \/ SetMode
    \/ SetSpreadFactor
    \/ SetBaudRate
    \/ GetUserID
    \/ GetRssiLastRx
    \/ GetRssiCurrentChannel
    \/ GetSerialNumber
    \/ FactoryReset
    \/ SendRawCommand
    \/ SendRawCommandAsync
    \/ TransmitData
    \/ TransmitDataFireAndForget
    \/ GetRssiCurrentChannelAsync
    \/ GetSerialNumberAsync
    \/ WaitStep
    \/ Work
    \/ Deliver
    \/ Unsolicited

SpecMode == Init /\ [][NextMode]_vars

----------------------------------------------------------------------------
(* The decoders applied to a captured frame.  The frame is captured by the *)
(* parser from the reply of the modem; every step applies one decoder to   *)
(* the frame buffer as it then is, the way the operation that awaited the  *)
(* frame does once its wait has returned Ok, and records what the          *)
(* operation returns.                                                      *)

(* Value frames of one byte: lower case, other bytes, lengths, prefixes.   *)
HexByteVariants ==
    {<<42, 67, 72, 61, 48, 97>>,   \* "*CH=0a"
     <<42, 67, 72, 61, 102, 70>>,   \* "*CH=fF"
     <<42, 67, 72, 61, 48, 71>>,   \* "*CH=0G"
     <<42, 67, 72, 61, 71, 48>>,   \* "*CH=G0"
     <<42, 67, 72, 61, 48, 32>>,   \* "*CH=0 "
     <<42, 67, 72, 61, 48>>,   \* "*CH=0"
     <<42, 67, 72, 61, 48, 65, 48>>,   \* "*CH=0A0"
     <<42, 77, 79, 61, 48, 65>>,   \* "*MO=0A"
     <<42, 88, 89, 61, 48, 90>>,   \* "*XY=0Z"
     <<42, 73, 82, 61, 48, 49>>}   \* "*IR=01"

(* Value frames of two bytes.                                              *)
HexWordVariants ==
    {<<42, 85, 73, 61, 49, 50, 65, 66>>,   \* "*UI=12AB"
     <<42, 85, 73, 61, 102, 102, 70, 70>>,   \* "*UI=ffFF"
     <<42, 85, 73, 61, 48, 48, 48, 48>>,   \* "*UI=0000"
     <<42, 85, 73, 61, 49, 50, 65>>,   \* "*UI=12A"
     <<42, 85, 73, 61, 49, 50, 65, 66, 48>>,   \* "*UI=12AB0"
     <<42, 85, 73, 61, 49, 50, 65, 71>>,   \* "*UI=12AG"
     <<42, 85, 73, 61, 71, 50, 65, 66>>,   \* "*UI=G2AB"
     <<42, 85, 74, 61, 49, 50, 65, 66>>}   \* "*UJ=12AB"

(* Signal strength frames.                                                 *)
RssiVariants ==
    {<<42, 82, 83, 61, 45, 49, 50, 100, 66, 109>>,   \* "*RS=-12dBm"
     <<42, 82, 83, 61, 45, 49, 50, 51, 100, 66, 109>>,   \* "*RS=-123dBm"
     <<42, 82, 65, 61, 45, 49, 50, 100, 66, 109>>,   \* "*RA=-12dBm"
     <<42, 82, 65, 61, 45, 49, 50, 51, 100, 66, 109>>,   \* "*RA=-123dBm"
     <<42, 82, 83, 61, 49, 50, 51, 100, 66, 109>>,   \* "*RS=123dBm"
     <<42, 82, 83, 61, 49, 50, 51, 52, 100, 66, 109>>,   \* "*RS=1234dBm"
     <<42, 82, 83, 61, 45, 49, 50, 51, 52, 100, 66, 109>>,   \* "*RS=-1234dBm"
     <<42, 82, 83, 61, 45, 49, 100, 66, 109>>,   \* "*RS=-1dBm"
     <<42, 82, 83, 61, 45, 49, 50, 88, 66, 109>>,   \* "*RS=-12XBm"
     <<42, 82, 83, 61, 45, 49, 50, 100, 66, 77>>,   \* "*RS=-12dBM"
     <<42, 82, 83, 61, 45, 49, 120, 100, 66, 109>>,   \* "*RS=-1xdBm"
     <<42, 82, 83, 61, 45, 45, 49, 100, 66, 109>>,   \* "*RS=--1dBm"
     <<42, 82, 83, 61, 45, 45, 45, 100, 66, 109>>,   \* "*RS=---dBm"
     <<42, 82, 83, 61, 43, 49, 50, 100, 66, 109>>,   \* "*RS=+12dBm"
     <<42, 82, 83, 61, 32, 45, 49, 100, 66, 109>>,   \* "*RS= -1dBm"
     <<42, 82, 65, 61, 32, 43, 49, 50, 100, 66, 109>>,   \* "*RA= +12dBm"
     <<42, 82, 84, 61, 45, 49, 50, 100, 66, 109>>}   \* "*RT=-12dBm"

(* Serial number frames.                                                   *)
SerialVariants ==
    {<<42, 83, 78, 61, 65, 49, 50, 51, 52, 53, 54, 55>>,   \* "*SN=A1234567"
     <<42, 83, 78, 61, 49, 50, 51, 52, 53, 54, 55, 56>>,   \* "*SN=12345678"
     <<42, 83, 78, 61, 48, 48, 48, 48, 48, 48, 48, 49>>,   \* "*SN=00000001"
     <<42, 83, 78, 61, 65, 49, 50, 51, 52, 53, 54, 88>>,   \* "*SN=A123456X"
     <<42, 83, 78, 61, 65, 66, 50, 51, 52, 53, 54, 55>>,   \* "*SN=AB234567"
     <<42, 83, 78, 61, 49, 50, 51, 52, 65, 54, 55, 56>>,   \* "*SN=1234A678"
     <<42, 83, 78, 61, 49, 50, 51, 52, 53, 54, 55>>,   \* "*SN=1234567"
     <<42, 83, 78, 61, 49, 50, 51, 52, 53, 54, 55, 56, 57>>,   \* "*SN=123456789"
     <<42, 83, 77, 61, 49, 50, 51, 52, 53, 54, 55, 56>>}   \* "*SM=12345678"

(* Acknowledgements.                                                       *)
AckVariants ==
    {<<42, 87, 82, 61, 80, 83>>,   \* "*WR=PS"
     <<42, 87, 82, 61, 78, 71>>,   \* "*WR=NG"
     <<42, 73, 90, 61, 79, 75>>,   \* "*IZ=OK"
     <<42, 73, 90, 61, 78, 71>>,   \* "*IZ=NG"
     <<42, 87, 82, 61, 80, 83, 48>>}   \* "*WR=PS0"

DecodeFrames ==
    {FrameCH(b) : b \in 0..255} \cup HexByteVariants \cup HexWordVariants
       \cup RssiVariants \cup SerialVariants \cup AckVariants

(* The parser record of ParserInit with the bytes u in the transport.      *)
FreshParser(u) ==
    [st |-> "Start", buf |-> -1, idx |-> 0, rx |-> [i \in 0..(RxSize - 1) |-> 0],
     drPresent |-> FALSE, drLen |-> 0, dr |-> [i \in 0..(DrSize - 1) |-> 0],
     uart |-> u, rxHigh |-> -1, drHigh |-> -1, unreadOver |-> FALSE]

(* The parser has just reported the frame f of the modem's reply.          *)
InitDecode ==
    /\ DriverInit
    /\ m_mode = FskCmd
    /\ m_pCallback = FALSE
    /\ \E f \in DecodeFrames :
          \E r \in {m_Parse(FreshParser(f \o CRLF))} :
             /\ script = Reply("frame", f \o CRLF, <<f>>, <<>>)
             /\ lastRet = r.ret
             /\ m_parserState = r.p.st
             /\ m_oneByteBuf = r.p.buf
             /\ m_rxIdx = r.p.idx
             /\ m_rxMessage = r.p.rx
             /\ m_drMessagePresent = r.p.drPresent
             /\ m_drMessageLen = r.p.drLen
             /\ m_drMessage = r.p.dr
             /\ uart = r.p.uart
             /\ rxHigh = r.p.rxHigh
             /\ drHigh = r.p.drHigh
             /\ unreadOver = r.p.unreadOver
    /\ wire = <<>>
    /\ events = <<>>

(* The decoder named op has given k: the buffer is as it left it and the   *)
(* operation returns its result.                                           *)
Returned(op, len, prefix, k) ==
    /\ Commit(k.p)
    /\ ret' = [op |-> op, arg |-> len, rv |-> k.rv, wrote |-> k.wrote,
               val |-> k.val, out |-> prefix]
    /\ UNCHANGED <<wire, script, histVars, m_asyncExpectedResponse, m_mode,
                   m_pCallback, bTimeout, timeOut, elapsed, tx, call, cbLog,
                   lastWait, calls, sent>>

(* The value frames m_GetByteValue is called for: GetChannel and GetMode.  *)
ByteReplies ==
    {[prefix |-> MLR_SET_CHANNEL_RESPONSE_PREFIX, len |-> MLR_SET_CHANNEL_RESPONSE_LEN],
     [prefix |-> MLR_SET_MODE_RESPONSE_PREFIX, len |-> MLR_SET_MODE_RESPONSE_LEN]}

Apply_HexByte ==
    /\ lastRet = "FinishedCmdResponse"
    /\ \E a \in ByteReplies :
       Returned("m_HandleMessageHexByte", a.len, a.prefix,
                After_GetByteValue("Ok", PState, a.prefix, a.len))

Apply_HexWord ==
    /\ lastRet = "FinishedCmdResponse"
    /\ Returned("m_HandleMessageHexWord", MLR_GET_USERID_RESPONSE_LEN,
                MLR_GET_USERID_RESPONSE_PREFIX, After_GetUserID("Ok", PState))

Apply_RS ==
    /\ lastRet = "FinishedCmdResponse"
    /\ Returned("m_HandleMessage_RS", 0, MLR_GET_RSSI_LAST_RX_RESPONSE_PREFIX,
                After_GetRssiLastRx("Ok", PState))

Apply_RA ==
    /\ lastRet = "FinishedCmdResponse"
    /\ Returned("m_HandleMessage_RA", 0, MLR_GET_RSSI_CURRENT_CHANNEL_RESPONSE_PREFIX,
                After_GetRssiCurrentChannel("Ok", PState))

Apply_SN ==
    /\ lastRet = "FinishedCmdResponse"
    /\ Returned("m_HandleMessage_SN", MLR_GET_SERIAL_NUMBER_RESPONSE_LEN,
                MLR_GET_SERIAL_NUMBER_RESPONSE_PREFIX,
                After_GetSerialNumber("Ok", PState))

Apply_WR ==
    /\ lastRet = "FinishedCmdResponse"
    /\ Returned("m_HandleMessage_WR", MLR_WRITE_VALUE_RESPONSE_LEN,
                MLR_WRITE_VALUE_RESPONSE_PREFIX,
                KRet(m_HandleMessage_WR(PState), FALSE, 0, PState))

Apply_IZ ==
    /\ lastRet = "FinishedCmdResponse"
    /\ Returned("m_HandleMessage_IZ", MLR_SET_IZ_RESPONSE_LEN_OK,
                MLR_SET_IZ_RESPONSE_PREFIX_OK,
                KRet(m_HandleMessage_IZ(PState), FALSE, 0, PState))

NextDecode ==
    \/ Apply_HexByte
    \/ Apply_HexWord
    \/ Apply_RS
    \/ Apply_RA
    \/ Apply_SN
    \/ Apply_WR
    \/ Apply_IZ

SpecDecode == InitDecode /\ [][NextDecode]_vars

----------------------------------------------------------------------------
(* The decoders applied to the buffer a data frame leaves behind.  The     *)
(* parser reads a command frame every decoder accepts one of, then a data  *)
(* frame, then whatever follows; a decoder is applied when the data frame  *)
(* has just completed.                                                     *)
StaleFrames ==
    {FrameCH(10), FrameMO(LoRaCmd), FrameDT(2), FrameIR(3), FrameUI, FrameRS,
     FrameRA, FrameSN, MLR_WRITE_VALUE_RESPONSE_PREFIX, MLR_SET_IZ_RESPONSE_PREFIX_OK}

StalePayloads == {<<>>, Payload2, Payload1, Payload1 \o Payload1}

StaleTails == {<<>>, FollowFrame \o CRLF, <<FillByte, CR, LF>>}

InitStale ==
    /\ ParserInit
    /\ DriverInit
    /\ m_mode = FskCmd
    /\ m_pCallback = FALSE
    /\ \E f \in StaleFrames, pl \in StalePayloads, t \in StaleTails :
          /\ script = Reply("stale", f \o CRLF \o DrFrame(pl) \o t, <<f>>, <<pl>>)
          /\ uart = f \o CRLF \o DrFrame(pl) \o t
    /\ wire = <<>>
    /\ lastRet = "none"
    /\ events = <<>>

(* Every decoder of the driver with the arguments its callers give it, and *)
(* what it returns for the buffer as it is.                                *)
Decoders ==
    {[op |-> "m_HandleMessageHexByte", len |-> a.len, prefix |-> a.prefix,
      k |-> KDec(m_HandleMessageHexByte(PState, a.len, a.prefix))] :
        a \in ByteReplies
              \cup {[prefix |-> MLR_TRANSMISSION_RESPONSE_PREFIX,
                     len |-> MLR_TRANSMISSION_RESPONSE_LEN],
                    [prefix |-> MLR_INFORMATION_RESPONSE_PREFIX,
                     len |-> MLR_INFORMATION_RESPONSE_LEN]}}
    \cup
    {[op |-> "m_HandleMessageHexWord", len |-> MLR_GET_USERID_RESPONSE_LEN,
      prefix |-> MLR_GET_USERID_RESPONSE_PREFIX,
      k |-> After_GetUserID("Ok", PState)],
     [op |-> "m_HandleMessage_RS", len |-> 0,
      prefix |-> MLR_GET_RSSI_LAST_RX_RESPONSE_PREFIX,
      k |-> After_GetRssiLastRx("Ok", PState)],
     [op |-> "m_HandleMessage_RA", len |-> 0,
      prefix |-> MLR_GET_RSSI_CURRENT_CHANNEL_RESPONSE_PREFIX,
      k |-> After_GetRssiCurrentChannel("Ok", PState)],
     [op |-> "m_HandleMessage_SN", len |-> MLR_GET_SERIAL_NUMBER_RESPONSE_LEN,
      prefix |-> MLR_GET_SERIAL_NUMBER_RESPONSE_PREFIX,
      k |-> After_GetSerialNumber("Ok", PState)],
     [op |-> "m_HandleMessage_WR", len |-> MLR_WRITE_VALUE_RESPONSE_LEN,
      prefix |-> MLR_WRITE_VALUE_RESPONSE_PREFIX,
      k |-> KRet(m_HandleMessage_WR(PState), FALSE, 0, PState)],
     [op |-> "m_HandleMessage_IZ", len |-> MLR_SET_IZ_RESPONSE_LEN_OK,
      prefix |-> MLR_SET_IZ_RESPONSE_PREFIX_OK,
      k |-> KRet(m_HandleMessage_IZ(PState), FALSE, 0, PState)]}

(* A decoder applied to the frame the parser has just reported.            *)
DecodeFrame ==
    /\ lastRet = "FinishedCmdResponse"
    /\ \E d \in Decoders : Returned(d.op, d.len, d.prefix, d.k)

(* A decoder applied when the parser has just reported a data frame.       *)
DecodeAfterData ==
    /\ lastRet = "FinishedDrResponse"
    /\ \E d \in Decoders : Returned(d.op, d.len, d.prefix, d.k)

NextStale ==
    \/ ParseCall
    \/ DecodeFrame
    \/ DecodeAfterData

SpecStale == InitStale /\ [][NextStale]_vars

----------------------------------------------------------------------------
(* A request after a wait that timed out.  GetChannel has written its      *)
(* request and m_WaitCmdResponse has run into its deadline with no byte    *)
(* read: the parser is in Start, GetChannel has returned Fail, and the     *)
(* modem's reply `late` to that request is still on its way (or, for the   *)
(* reply "silence", will never come).  The application then calls          *)
(* GetChannel again, with no Work() in between; `calls` counts the         *)
(* requests written from here on.                                          *)
TimedOutAt == (DefaultMs \div TickMs + 1) * TickMs

InitLate ==
    /\ ParserInit
    /\ m_asyncExpectedResponse = "Idle"
    /\ bTimeout = TRUE
    /\ timeOut = DefaultMs
    /\ elapsed = TimedOutAt
    /\ tx = MLR_GET_CHANNEL_STRING
    /\ call = NoCall
    /\ ret = [NoRet EXCEPT !.op = "GetChannel", !.rv = "Fail"]
    /\ cbLog = <<>>
    /\ lastWait = [NoWait EXCEPT !.rv = "Fail", !.ev = "timeout",
                                 !.at = TimedOutAt, !.ms = DefaultMs,
                                 !.clean = TRUE, !.req = MLR_GET_CHANNEL_STRING,
                                 !.waits = 1]
    /\ calls = 0
    /\ sent = 0
    /\ \E cfg \in InitConfigs : m_mode = cfg[1] /\ m_pCallback = cfg[2]
    /\ \E late \in Replies(NewCall("GetChannel", 0, 0, FALSE, 0)) :
          /\ script = late
          /\ wire = late.bytes
    /\ uart = <<>>
    /\ lastRet = "timeout"
    /\ events = <<>>

NextLate ==
    \/ GetChannel
    \/ WaitStep
    \/ Deliver

SpecLate == InitLate /\ [][NextLate]_vars

---------------------------------------------------------------------------
(* The packet store.  The modem sends a stream of data frames, whole or    *)
(* spoilt, and other lines; the application calls Work(), GetPacket() and  *)
(* DeletePacket() in any order.                                            *)

(* A data frame whose terminator is not CR LF, and one that stops early.   *)
BadEndFrame == <<STAR, ChD, ChR, EQ>> \o Fmt02X(Len(Payload1)) \o Payload1 \o <<88, 89>>
CutFrame == SubSeq(DrFrame(Payload1), 1, Len(DrFrame(Payload1)) - 3)

StreamItems ==
    {DrFrame(Payload1), DrFrame(Payload2), BadEndFrame, CutFrame,
     Lines(<<FrameCH(10)>>), <<FillByte, CR, LF>>}

PacketStreams ==
    StreamItems \cup {DrFrame(pl) \o x : pl \in {Payload1, Payload2}, x \in StreamItems}

InitPacket ==
    /\ ParserInit
    /\ DriverInit
    /\ m_mode = FskCmd
    /\ m_pCallback = TRUE
    /\ \E b \in PacketStreams :
          /\ script = Reply("stream", b, <<>>, <<>>)
          /\ wire = b
    /\ uart = <<>>
    /\ lastRet = "none"
    /\ events = <<>>

(* Mutant of GetPacket: the packet is handed out once.                     *)
GetPacket_Consumes ==
    /\ call.op = "none"
    /\ ret' = [op |-> "GetPacket", arg |-> 0,
               rv |-> IF m_drMessagePresent THEN "Ok" ELSE "Fail",
               wrote |-> m_drMessagePresent,
               val |-> IF m_drMessagePresent THEN m_drMessageLen ELSE 0,
               out |-> IF m_drMessagePresent THEN DrOf(PState) ELSE <<>>]
    /\ m_drMessagePresent' = FALSE
    /\ UNCHANGED <<m_parserState, m_oneByteBuf, m_rxIdx, m_rxMessage,
                   m_drMessageLen, m_drMessage, rxHigh, drHigh, unreadOver, envVars,
                   histVars,
                   m_asyncExpectedResponse, m_mode, m_pCallback, bTimeout,
                   timeOut, elapsed, tx, call, cbLog, lastWait, calls, sent>>

(* GetPacket(ppData, len): val and out are *len and what *ppData points at.*)
GetPacket ==
    /\ call.op = "none"
    /\ ret' = [op |-> "GetPacket", arg |-> 0,
               rv |-> IF m_drMessagePresent THEN "Ok" ELSE "Fail",
               wrote |-> m_drMessagePresent,
               val |-> IF m_drMessagePresent THEN m_drMessageLen ELSE 0,
               out |-> IF m_drMessagePresent THEN DrOf(PState) ELSE <<>>]
    /\ UNCHANGED <<parserVars, envVars, histVars, m_asyncExpectedResponse,
                   m_mode, m_pCallback, bTimeout, timeOut, elapsed, tx, call,
                   cbLog, lastWait, calls, sent>>

(* DeletePacket()                                                          *)
DeletePacket ==
    /\ call.op = "none"
    /\ m_drMessagePresent' = FALSE
    /\ ret' = [NoRet EXCEPT !.op = "DeletePacket"]
    /\ UNCHANGED <<m_parserState, m_oneByteBuf, m_rxIdx, m_rxMessage,
                   m_drMessageLen, m_drMessage, rxHigh, drHigh, unreadOver, envVars,
                   histVars,
                   m_asyncExpectedResponse, m_mode, m_pCallback, bTimeout,
                   timeOut, elapsed, tx, call, cbLog, lastWait, calls, sent>>

NextPacket ==
    \/ Deliver
    \/ Work
    \/ GetPacket
    \/ DeletePacket

SpecPacket == InitPacket /\ [][NextPacket]_vars

----------------------------------------------------------------------------
(* The asynchronous operations under an application loop that keeps        *)
(* calling Work().  Nothing in Work() or in the parser reads the clock, so *)
(* the time that passes between two calls of Work() is a step of its own:  *)
(* Tick advances the time since the last m_StartTimeout while an           *)
(* expectation is pending, up to one tick past the armed deadline.         *)
Tick ==
    /\ call.op = "none"
    /\ m_asyncExpectedResponse # "Idle"
    /\ elapsed <= timeOut
    /\ elapsed' = elapsed + TickMs
    /\ UNCHANGED <<parserVars, uart, wire, script, lastRet, events,
                   m_asyncExpectedResponse, m_mode, m_pCallback, bTimeout,
                   timeOut, tx, call, ret, sent, cbLog, lastWait, calls>>

NextAsync ==
    \/ SendRawCommandAsync
    \/ GetRssiCurrentChannelAsync
    \/ GetSerialNumberAsync
    \/ TransmitDataFireAndForget
    \/ WaitStep
    \/ Work
    \/ Deliver
    \/ Tick

(* The loop calls Work() again and again, a blocking wait keeps polling,   *)
(* the transport hands over what the modem has sent, and time passes.      *)
SpecAsyncFair ==
    /\ Init
    /\ [][NextAsync]_vars
    /\ WF_vars(Work)
    /\ WF_vars(WaitStep)
    /\ WF_vars(Deliver)
    /\ WF_vars(Tick)

---------------------------------------------------------------------------
(* Properties of the bounded wait and of the operations.                   *)

RangeOf(f) == { f[i] : i \in DOMAIN f }

(* C5: m_WaitCmdResponse returns Ok exactly when m_Parse reports           *)
(* FinishedCmdResponse, which it does before the deadline has passed and   *)
(* before any Garbage or Overflow event, and m_rxMessage then holds that   *)
(* frame (a frame of the reply, when no older bytes were left in the       *)
(* stream); it returns Fail at the first Garbage or Overflow  *)
(* event without waiting further, and returns Fail with the parser state   *)
(* set to Start when the deadline passes.                                  *)
C5_WaitOutcome ==
    /\ lastWait.ev \in {"none", "FinishedCmdResponse", "Garbage", "Overflow",
                        "timeout"}
    /\ lastWait.rv = "Ok" <=> lastWait.ev = "FinishedCmdResponse"
    /\ lastWait.rv = "Ok" =>
          /\ lastWait.at <= lastWait.ms
          /\ lastWait.clean => lastWait.frame \in RangeOf(script.frames)
    /\ lastWait.ev \in {"Garbage", "Overflow"} =>
          /\ lastWait.rv = "Fail"
          /\ lastWait.at <= lastWait.ms
    /\ lastWait.ev = "timeout" =>
          /\ lastWait.rv = "Fail"
          /\ lastWait.st = "Start"
          /\ lastWait.at > lastWait.ms
    /\ call.op # "none" => lastRet \in {"none", "Parsing", "FinishedDrResponse"}

(* A wait that returned Ok on a frame that completed in a later pass of    *)
(* the loop, and the operation returned the value of that frame.           *)
C5_Witness ==
    /\ lastWait.rv = "Ok"
    /\ lastWait.at > 0
    /\ lastWait.frame = FrameCH(10)
    /\ ret.op = "GetChannel" /\ ret.rv = "Ok" /\ ret.val = 10

(* C6: with a callback registered, when a wait returns Ok every data frame *)
(* that completed before the awaited frame has been handed to the callback *)
(* as (Ok, DataReceived, payload, length), in the order received: for a    *)
(* request written when only whole data frames were left in the stream,    *)
(* these are the frames left and the data frames of the reply.  A data     *)
(* frame never ends the wait.                                              *)
C6_DataDuringWait ==
    /\ lastWait.ev # "FinishedDrResponse"
    /\ (m_pCallback /\ lastWait.rv = "Ok" /\ lastWait.clean) =>
          LET expected == lastWait.due \o script.drs
          IN lastWait.data = [i \in 1..Len(expected) |->
                                CbEntry("Ok", "DataReceived", 0, expected[i],
                                        Len(expected[i]))]

(* A data frame sent unasked and the two data frames of the reply came     *)
(* ahead of the awaited frame, the wait passed all three to the callback   *)
(* and the operation returned Ok.                                          *)
C6_Witness ==
    /\ m_pCallback
    /\ script.kind = "data"
    /\ ret.op = "GetSerialNumber" /\ ret.rv = "Ok"
    /\ lastWait.rv = "Ok"
    /\ lastWait.due = <<Payload1>>
    /\ Len(lastWait.data) = 3
    /\ lastWait.data[2].payload = Payload1
    /\ lastWait.data[3].payload = Payload2

(* C7: bytes other than '*' met between frames never make a wait fail: if  *)
(* such bytes precede the awaited frame, and nothing but whole data frames *)
(* was left in the stream before them, the wait returns Fail only when its *)
(* deadline passes.  A malformed partial frame ahead of the awaited    *)
(* frame makes m_Parse report Garbage, and the wait then returns Fail.     *)
C7_GarbageBetweenFrames ==
    /\ (script.kind = "garbage" /\ lastWait.clean /\ lastWait.rv = "Fail") =>
          lastWait.ev = "timeout"
    /\ (script.kind = "partial" /\ lastWait.clean /\ lastWait.rv # "none") =>
          /\ lastWait.rv = "Fail"
          /\ lastWait.ev \in {"Garbage", "timeout"}

(* Garbage bytes came ahead of the awaited frame and the operation         *)
(* returned Ok with the value of the frame.                                *)
C7_Witness ==
    /\ script.kind = "garbage"
    /\ lastWait.clean
    /\ lastWait.rv = "Ok"
    /\ ret.op = "GetUserID" /\ ret.rv = "Ok" /\ ret.val = 4779

(* C7 as stated: with garbage bytes or a malformed partial frame ahead of  *)
(* the awaited frame, the wait returns Fail only when the deadline passes. *)
C7_AsStated ==
    (script.kind \in {"garbage", "partial"} /\ lastWait.clean
        /\ lastWait.rv = "Fail") =>
        lastWait.ev = "timeout"


(* C8: whenever an operation returns Fail, FailLbt or BufferTooSmall the   *)
(* parser state is Start afterwards; an operation that returns Busy or     *)
(* InvalidArg leaves the parser state as it found it.                      *)
C8_ErrorLeavesStart ==
    [][ /\ ret'.rv \in {"Fail", "FailLbt", "BufferTooSmall"} =>
              m_parserState' = "Start"
        /\ (ret' # ret /\ ret'.rv \in {"Busy", "InvalidArg"}) =>
              m_parserState' = m_parserState ]_vars

(* The deadline passed in the middle of a frame and the operation returned *)
(* Fail with the parser back in Start.                                     *)
C8_Witness ==
    /\ ret.rv = "Fail"
    /\ script.kind = "cut"
    /\ lastWait.ev = "timeout"
    /\ m_rxIdx > 1
    /\ m_parserState = "Start"

(* C8 as stated: whenever an operation returns Busy, InvalidArg, Fail,     *)
(* FailLbt or BufferTooSmall the parser state is Start.                    *)
C8_AsStated ==
    ret.rv \in {"Busy", "InvalidArg", "Fail", "FailLbt", "BufferTooSmall"} =>
        m_parserState = "Start"

(* C9: while an expectation is pending every operation that returns,       *)
(* returns Busy, except that the operations that validate their arguments  *)
(* first return InvalidArg for an invalid argument.                        *)
C9_BusyWhilePending ==
    [][ (m_asyncExpectedResponse # "Idle" /\ ret' # ret /\ ret'.op # "none") =>
          LET a == ret'.arg
              invalid ==
                CASE ret'.op = "SetChannel" ->
                       a < MLR_SET_CHANNEL_MIN_VALUE_JP \/ a > MLR_SET_CHANNEL_MAX_VALUE_JP
                  [] ret'.op = "SetMode" -> a \in {FskBin, LoRaBin}
                  [] ret'.op = "SetSpreadFactor" ->
                       a < MLR_SET_SF_MIN_VALUE \/ a > MLR_SET_SF_MAX_VALUE
                  [] ret'.op = "SetBaudRate" -> BaudCode(a) = -1
                  [] ret'.op = "SendRawCommand" -> a = 0
                  [] ret'.op = "SendRawCommandAsync" -> a = -1
                  [] ret'.op = "TransmitDataFireAndForget" -> a = 0
                  [] OTHER -> FALSE
          IN ret'.rv = (IF invalid THEN "InvalidArg" ELSE "Busy") ]_vars

(* An operation with a valid argument was refused with Busy while the      *)
(* reply to an asynchronous request was pending.                           *)
C9_Witness ==
    /\ m_asyncExpectedResponse = "SerialNumber"
    /\ ret.op = "SetChannel" /\ ret.arg = 10 /\ ret.rv = "Busy"

(* C9 as stated: while an expectation is pending every operation that      *)
(* returns, returns Busy.                                                  *)
C9_AsStated ==
    [][ (m_asyncExpectedResponse # "Idle" /\ ret' # ret /\ ret'.op # "none") =>
          ret'.rv = "Busy" ]_vars

(* C10: while an expectation is pending no operation is in progress, no    *)
(* operation writes a byte to the transport, reads one from it or changes  *)
(* the expectation; the expectation changes from a non-Idle value only to  *)
(* Idle and only in a step of Work().                                      *)
C10_PendingUntouched ==
    [][ m_asyncExpectedResponse # "Idle" =>
          /\ call.op = "none" /\ call'.op = "none"
          /\ tx' = tx
          /\ ret'.op # "none" =>
                UNCHANGED <<parserVars, uart, wire, m_asyncExpectedResponse>>
          /\ m_asyncExpectedResponse' # m_asyncExpectedResponse =>
                /\ m_asyncExpectedResponse' = "Idle"
                /\ Work ]_vars

(* An operation was refused while bytes of the pending reply were waiting  *)
(* in the transport, and Work() had already consumed part of the frame.    *)
C10_Witness ==
    /\ m_asyncExpectedResponse = "RssiCurrentChannel"
    /\ ret.op = "GetUserID" /\ ret.rv = "Busy"
    /\ uart # <<>>
    /\ m_parserState = "ReadCmdUntilCR"
    /\ tx = MLR_GET_RSSI_CURRENT_CHANNEL_STRING

(* C11: a Work() step that completes a command frame while an expectation  *)
(* is pending and a callback is registered invokes the callback exactly    *)
(* once, with the pending expectation as its kind and the outcome of       *)
(* decoding the frame as its error: Ok and the value when the frame is the *)
(* expected reply, a failure when its prefix is another one, and Ok with   *)
(* the raw frame and its length for a generic response.  The expectation   *)
(* is Idle when Work() returns.                                            *)
RxAfter == [i \in 1..m_rxIdx' |-> m_rxMessage'[i - 1]]

PrefixOfKind(kind) ==
    CASE kind = "SerialNumber" -> MLR_GET_SERIAL_NUMBER_RESPONSE_PREFIX
      [] kind = "MLR_Modem_DtIr" -> MLR_INFORMATION_RESPONSE_PREFIX
      [] kind = "RssiCurrentChannel" -> MLR_GET_RSSI_CURRENT_CHANNEL_RESPONSE_PREFIX
      [] OTHER -> <<>>

C11_DispatchOnce ==
    [][(Work /\ lastRet' = "FinishedCmdResponse" /\ m_asyncExpectedResponse # "Idle"
             /\ m_pCallback)
       => /\ m_asyncExpectedResponse' = "Idle"
          /\ Len(cbLog') = Len(cbLog) + 1
          /\ SubSeq(cbLog', 1, Len(cbLog)) = cbLog
          /\ LET e == cbLog'[Len(cbLog')]
                 f == RxAfter
                 kind == m_asyncExpectedResponse
             IN /\ e.kind = kind
                /\ e.err \in {"Ok", "Fail"}
                /\ kind = "GenericResponse"
                      => e.err = "Ok" /\ e.payload = f /\ e.len = Len(f)
                /\ kind = "SerialNumber" /\ f = FrameSN
                      => e.err = "Ok" /\ e.value = 1234567
                /\ kind = "MLR_Modem_DtIr"
                      => \A v \in 0..255 : f = FrameIR(v) => e.err = "Ok" /\ e.value = v
                /\ kind = "RssiCurrentChannel" /\ Len(f) = Len(FrameRA)
                     /\ SubSeq(f, 1, 8) = SubSeq(FrameRA, 1, 8)
                     /\ SubSeq(f, 10, 11) = SubSeq(FrameRA, 10, 11)
                      => e.err = "Ok" /\ e.value = -123
                /\ kind # "GenericResponse"
                     /\ SubSeq(f, 1, Min(4, Len(f))) # PrefixOfKind(kind)
                      => e.err = "Fail"]_vars

C11_Witness ==
    /\ lastRet = "FinishedCmdResponse"
    /\ call.op = "none"
    /\ ret = NoRet
    /\ m_asyncExpectedResponse = "Idle"
    /\ Len(cbLog) = 1
    /\ cbLog[1].kind = "SerialNumber"
    /\ cbLog[1].err = "Ok"
    /\ cbLog[1].value = 1234567

(* C12: every armed asynchronous expectation is eventually destroyed: once *)
(* an expectation is pending and Work() keeps being called, the pending    *)
(* expectation eventually returns to Idle, by a completed frame or by a    *)
(* failure path when the reply is garbled or never arrives, also after the *)
(* timeout given to SendRawCommandAsync has elapsed.                       *)
C12_EventuallyIdle ==
    (m_asyncExpectedResponse # "Idle") ~> (m_asyncExpectedResponse = "Idle")

(* C13: a set-byte-value operation called with saveValue = true returns Ok *)
(* only if the first command frame its waits completed is exactly *WR=PS   *)
(* and the next one is the value frame with the expected prefix whose two  *)
(* hex digits are the requested value; when both frames arrive but the     *)
(* echoed value differs the result is Fail; with saveValue = false exactly *)
(* one command frame is awaited.                                           *)
SetOps == {"SetChannel", "SetMode", "SetSpreadFactor", "SetBaudRate"}

SetReturned == ret.op \in SetOps /\ ret.rv \notin {"none", "Busy", "InvalidArg"}

SetSaved ==
    /\ Len(lastWait.req) >= 4
    /\ SubSeq(lastWait.req, Len(lastWait.req) - 3, Len(lastWait.req) - 2) = <<47, 87>>

SetRequested == IF ret.op = "SetBaudRate" THEN BaudCode(ret.arg) ELSE ret.arg

SetPrefix ==
    CASE ret.op = "SetChannel" -> <<42, 67, 72, 61>>             \* "*CH="
      [] ret.op = "SetMode" -> <<42, 77, 79, 61>>                \* "*MO="
      [] ret.op = "SetSpreadFactor" -> <<42, 83, 70, 61>>        \* "*SF="
      [] OTHER -> <<42, 66, 82, 61>>                             \* "*BR="

HexPairs(v) ==
    {<<a, b>> : a \in {HexDigitUpper(v \div 16), HexDigitLower(v \div 16)},
                b \in {HexDigitUpper(v % 16), HexDigitLower(v % 16)}}

IsValueFrame(f, v) ==
    /\ Len(f) = 6
    /\ SubSeq(f, 1, 4) = SetPrefix
    /\ SubSeq(f, 5, 6) \in HexPairs(v)

AckFrame == <<42, 87, 82, 61, 80, 83>>                            \* "*WR=PS"

C13_SaveSequence ==
    SetReturned =>
       /\ ret.rv = "Ok" /\ SetSaved
            => /\ lastWait.waits = 2
               /\ Len(lastWait.got) = 2
               /\ lastWait.got[1] = AckFrame
               /\ IsValueFrame(lastWait.got[2], SetRequested)
       /\ ret.rv = "Ok" /\ ~SetSaved
            => /\ Len(lastWait.got) = 1
               /\ IsValueFrame(lastWait.got[1], SetRequested)
       /\ ~SetSaved => lastWait.waits = 1
       /\ SetSaved => lastWait.waits \in {1, 2}
       /\ SetSaved /\ lastWait.waits = 2 => lastWait.got[1] = AckFrame
       /\ \A v \in 0..255 :
             /\ v # SetRequested
             /\ Len(lastWait.got) = (IF SetSaved THEN 2 ELSE 1)
             /\ IsValueFrame(lastWait.got[Len(lastWait.got)], v)
             => ret.rv = "Fail"

C13_Witness ==
    /\ ret.op = "SetChannel"
    /\ ret.rv = "Ok"
    /\ SetSaved
    /\ lastWait.got = <<AckFrame, FrameCH(10)>>

C13_WitnessEcho ==
    /\ ret.op = "SetChannel"
    /\ ret.rv = "Fail"
    /\ SetSaved
    /\ lastWait.got = <<AckFrame, FrameCH(11)>>

(* C14: an operation that returns InvalidArg (SetChannel outside           *)
(* 0x07..0x2E, SetMode with a binary mode, SetSpreadFactor above 5,        *)
(* SetBaudRate with an unsupported rate, SendRawCommand with an empty      *)
(* buffer, SendRawCommandAsync without a command, TransmitDataFireAndForget*)
(* with an empty message) writes no byte to the transport, reads none, and *)
(* leaves the parser state, the frame buffers, the cached mode and the     *)
(* pending expectation unchanged; these arguments are refused whatever     *)
(* else is going on.                                                       *)
BadArgs(op, a) ==
    CASE op = "SetChannel" -> a < 7 \/ a > 46
      [] op = "SetMode" -> a \in {FskBin, LoRaBin}
      [] op = "SetSpreadFactor" -> a > 5
      [] op = "SetBaudRate" -> a \notin {1200, 2400, 4800, 9600, 19200}
      [] op = "SendRawCommand" -> a = 0
      [] op = "SendRawCommandAsync" -> a = -1
      [] op = "TransmitDataFireAndForget" -> a = 0
      [] OTHER -> FALSE

C14_InvalidArgTouchesNothing ==
    [][ret' # ret /\ ret'.op # "none"
       => /\ ret'.rv = "InvalidArg"
             => /\ BadArgs(ret'.op, ret'.arg)
                /\ UNCHANGED <<tx, uart, wire, parserVars, m_mode,
                               m_asyncExpectedResponse, cbLog, call>>
          /\ BadArgs(ret'.op, ret'.arg) => ret'.rv = "InvalidArg"]_vars

C14_Witness ==
    /\ ret.op = "SetChannel"
    /\ ret.arg = 5
    /\ ret.rv = "InvalidArg"
    /\ tx = <<>>
    /\ m_parserState # "Start"
    /\ m_rxIdx > 0

(* C15: for every byte b, when the captured frame is the four-character    *)
(* prefix followed by b written as two upper-case hex digits (six bytes),  *)
(* m_HandleMessageHexByte with that prefix and length returns Ok and       *)
(* yields b.                                                               *)
C15_HexByteRoundTrip ==
    [][Apply_HexByte
       => \A b \in 0..255 :
             RxOf(PState) = ret'.out \o Fmt02X(b)
             => ret'.rv = "Ok" /\ ret'.wrote /\ ret'.val = b]_vars

C15_Witness ==
    /\ ret.op = "m_HandleMessageHexByte"
    /\ ret.out = MLR_SET_CHANNEL_RESPONSE_PREFIX
    /\ RxOf(PState) = MLR_SET_CHANNEL_RESPONSE_PREFIX \o <<65, 70>>
    /\ ret.rv = "Ok"
    /\ ret.val = 175

(* C16: a get-byte-value operation returns Ok with the value v exactly     *)
(* when the awaited frame has the expected length (6), starts with the     *)
(* expected prefix and carries two hex digits that encode v; with a wrong  *)
(* length, a wrong prefix or a byte that is no hex digit it returns Fail   *)
(* and does not write the caller's output.  The two-byte decoder does the  *)
(* same with four hex digits and a 16-bit value.                           *)
IsHexChar(c) == \E n \in 0..15 : c \in {HexDigitUpper(n), HexDigitLower(n)}

HexCharValue(c) == CHOOSE n \in 0..15 : c \in {HexDigitUpper(n), HexDigitLower(n)}

WellFormedHex(f, prefix, digits) ==
    /\ Len(f) = 4 + digits
    /\ SubSeq(f, 1, 4) = prefix
    /\ \A i \in 5..(4 + digits) : IsHexChar(f[i])

C16_HexValueExactly ==
    [][/\ Apply_HexByte
          => LET f == RxOf(PState)
             IN IF WellFormedHex(f, ret'.out, 2)
                THEN /\ ret'.rv = "Ok"
                     /\ ret'.wrote
                     /\ ret'.val = 16 * HexCharValue(f[5]) + HexCharValue(f[6])
                ELSE ret'.rv = "Fail" /\ ~ret'.wrote
       /\ Apply_HexWord
          => LET f == RxOf(PState)
             IN IF WellFormedHex(f, ret'.out, 4)
                THEN /\ ret'.rv = "Ok"
                     /\ ret'.wrote
                     /\ ret'.val = 4096 * HexCharValue(f[5])
                                     + 256 * HexCharValue(f[6])
                                     + 16 * HexCharValue(f[7]) + HexCharValue(f[8])
                ELSE ret'.rv = "Fail" /\ ~ret'.wrote]_vars

C16_Witness ==
    /\ ret.op = "m_HandleMessageHexWord"
    /\ RxOf(PState) = <<42, 85, 73, 61, 102, 102, 70, 70>>
    /\ ret.rv = "Ok"
    /\ ret.wrote
    /\ ret.val = 65535

(* C17: the signal strength decoders return Ok with the value n exactly    *)
(* when the frame has length 10 or 11, starts with the prefix, ends with   *)
(* dBm, and the bytes between prefix and suffix are a base-10 number with  *)
(* an optional leading '-' and nothing else; -12dBm gives -12, -123dBm     *)
(* gives -123, and a bad suffix or a magnitude of four digits fails.       *)
RECURSIVE DecimalOf(_)
DecimalOf(d) ==
    IF d = <<>> THEN 0
    ELSE 10 * DecimalOf(SubSeq(d, 1, Len(d) - 1)) + (d[Len(d)] - 48)

AllDigits(d) == d # <<>> /\ \A i \in 1..Len(d) : d[i] \in 48..57

IsSignedDecimal(m) ==
    IF m # <<>> /\ m[1] = 45 THEN AllDigits(Tail(m)) ELSE AllDigits(m)

SignedDecimalOf(m) == IF m[1] = 45 THEN 0 - DecimalOf(Tail(m)) ELSE DecimalOf(m)

RssiMiddle(f) == SubSeq(f, 5, Len(f) - 3)

RssiWellFormed(f, prefix) ==
    /\ Len(f) \in {10, 11}
    /\ SubSeq(f, 1, 4) = prefix
    /\ SubSeq(f, Len(f) - 2, Len(f)) = <<100, 66, 109>>
    /\ IsSignedDecimal(RssiMiddle(f))

C17_RssiExactly ==
    [][Apply_RS \/ Apply_RA
       => LET f == RxOf(PState)
          IN /\ IF RssiWellFormed(f, ret'.out)
                THEN ret'.rv = "Ok" /\ ret'.val = SignedDecimalOf(RssiMiddle(f))
                ELSE ret'.rv = "Fail"
             /\ Len(f) >= 11 /\ AllDigits(SubSeq(f, Len(f) - 6, Len(f) - 3))
                  => ret'.rv = "Fail"]_vars

(* C18: the serial number decoder succeeds only on a frame of exactly 12   *)
(* bytes with the prefix *SN=.  A byte after the prefix that is no digit   *)
(* is skipped as a one-character letter prefix and the remaining seven     *)
(* bytes are decoded as decimal digits; otherwise all eight bytes are.  A  *)
(* byte of the numeric run that is no digit gives Fail and leaves the      *)
(* output unwritten.                                                       *)
SerialRun(f) == IF f[5] \in 48..57 THEN SubSeq(f, 5, 12) ELSE SubSeq(f, 6, 12)

C18_SerialNumber ==
    [][Apply_SN
       => LET f == RxOf(PState)
          IN IF /\ Len(f) = 12
                /\ SubSeq(f, 1, 4) = <<42, 83, 78, 61>>
                /\ AllDigits(SerialRun(f))
             THEN /\ ret'.rv = "Ok"
                  /\ ret'.wrote
                  /\ ret'.val = DecimalOf(SerialRun(f))
             ELSE ret'.rv = "Fail" /\ ~ret'.wrote]_vars

C18_Witness ==
    /\ ret.op = "m_HandleMessage_SN"
    /\ RxOf(PState) = FrameSN
    /\ ret.rv = "Ok"
    /\ ret.wrote
    /\ ret.val = 1234567

(* C19: the decoders are pure functions of the frame buffer: none of them  *)
(* changes m_rxMessage, m_rxIdx, m_parserState or the lookahead byte, so   *)
(* the same decoder applied once more to the captured frame gives the same *)
(* result.                                                                 *)
C19_DecodersPure ==
    [][NextDecode
       => /\ UNCHANGED <<m_rxMessage, m_rxIdx, m_parserState, m_oneByteBuf>>
          /\ ret.op = ret'.op /\ ret.out = ret'.out => ret' = ret]_vars

(* C20: TransmitData returns Fail, in every cached mode, when the echo of  *)
(* the transmission length does not arrive as a well-formed *DT=hh frame   *)
(* or its value differs from the requested length; it never returns Ok     *)
(* without a matching echo.                                                *)
EchoMatched ==
    /\ Len(lastWait.got) >= 1
    /\ Len(lastWait.got[1]) = 6
    /\ SubSeq(lastWait.got[1], 1, 4) = <<42, 68, 84, 61>>
    /\ SubSeq(lastWait.got[1], 5, 6) \in HexPairs(ret.arg)

C20_FailWithoutEcho ==
    ret.op = "TransmitData" /\ ret.rv \notin {"none", "Busy"} /\ ~EchoMatched
       => ret.rv = "Fail"

(* C21: with the cached mode LoRaCmd and a matching length echo,           *)
(* TransmitData awaits one information response with the timeout of        *)
(* 15000 ms; it returns FailLbt when *IR= carries 1 or 2, Ok when it       *)
(* carries 3, and Fail when no well-formed *IR=hh frame completes in time. *)
IsInfoFrame(f, v) ==
    /\ Len(f) = 6
    /\ SubSeq(f, 1, 4) = <<42, 73, 82, 61>>
    /\ SubSeq(f, 5, 6) \in HexPairs(v)

TransmitReturned == ret.op = "TransmitData" /\ ret.rv \notin {"none", "Busy"}

InfoValue(v) == Len(lastWait.got) = 2 /\ IsInfoFrame(lastWait.got[2], v)

NoInfo == Len(lastWait.got) < 2 \/ \A v \in 0..255 : ~IsInfoFrame(lastWait.got[2], v)

C21_LoRaInformation ==
    TransmitReturned /\ m_mode = LoRaCmd /\ EchoMatched
       => /\ lastWait.waits = 2
          /\ lastWait.ms = 15000
          /\ InfoValue(1) \/ InfoValue(2) => ret.rv = "FailLbt"
          /\ InfoValue(3) => ret.rv = "Ok"
          /\ NoInfo => ret.rv = "Fail"
          /\ NoInfo /\ Len(lastWait.got) < 2 => lastWait.at > 15000

C21_Witness ==
    /\ TransmitReturned
    /\ m_mode = LoRaCmd
    /\ EchoMatched
    /\ InfoValue(2)
    /\ ret.rv = "FailLbt"

HasPacket == m_drMessagePresent

LastData == cbLog[Len(cbLog)]

C23_PacketPeek ==
    [][/\ GetPacket
          => /\ UNCHANGED <<m_drMessagePresent, m_drMessage, m_drMessageLen>>
             /\ ret'.rv = (IF HasPacket THEN "Ok" ELSE "Fail")
             /\ HasPacket
                  => /\ cbLog # <<>>
                     /\ LastData.kind = "DataReceived"
                     /\ ret'.out = LastData.payload
                     /\ ret'.val = Len(LastData.payload)
             /\ ~HasPacket => ~ret'.wrote
       /\ DeletePacket => ~HasPacket'
       /\ ~HasPacket /\ HasPacket'
          => Work /\ lastRet' = "FinishedDrResponse"]_vars

C23_Witness ==
    /\ ret.op = "GetPacket"
    /\ ret.rv = "Ok"
    /\ ret.out = Payload2
    /\ HasPacket
    /\ Len(cbLog) = 2

C23_WitnessDeleted ==
    /\ ret.op = "GetPacket"
    /\ ret.rv = "Fail"
    /\ ~HasPacket
    /\ Len(cbLog) = 1
    /\ m_parserState = "Start"
    /\ wire = <<>>

(* C24: the packet store is stable.  Once a data frame has completed, the  *)
(* stored payload and length stay present and unmodified until             *)
(* DeletePacket is called or a later data frame completes and replaces     *)
(* them: a step that is neither leaves the flag set and the packet as it   *)
(* was.                                                                    *)
C24_StoredPacketKept ==
    [][HasPacket /\ ~DeletePacket /\ ~(Work /\ lastRet' = "FinishedDrResponse")
          => /\ HasPacket'
             /\ m_drMessageLen' = m_drMessageLen
             /\ DrOf(PState)' = DrOf(PState)]_vars

(* C25: data frames met during a synchronous wait do not move its         *)
(* deadline.  A pass of the wait loop that does not leave the wait, the    *)
(* pass that completes a data frame and calls the callback included,       *)
(* leaves the duration and the timeout flag as they are and does not put   *)
(* the time since the start back; the pass that finds the deadline passed  *)
(* ends the wait with Fail; so the time since the start never exceeds the  *)
(* duration by more than one pass, however many data frames arrived.       *)
WaitContinues == WaitStep /\ lastWait'.waits = lastWait.waits

C25_DeadlineFixed ==
    [][/\ WaitContinues
          => /\ timeOut' = timeOut
             /\ bTimeout' = bTimeout
             /\ elapsed' \in {elapsed, elapsed + TickMs}
             /\ call' = call
       /\ WaitStep /\ lastRet' = "FinishedDrResponse" => WaitContinues
       /\ WaitStep /\ elapsed > timeOut
          => /\ lastWait'.waits = lastWait.waits + 1
             /\ lastWait'.ev = "timeout"
             /\ lastWait'.rv = "Fail"
             /\ lastWait'.at = elapsed
       /\ call'.op # "none" => elapsed' <= timeOut' + TickMs]_vars

C25_Witness ==
    /\ ret.rv = "Fail"
    /\ lastWait.ev = "timeout"
    /\ Len(lastWait.data) >= 1
    /\ lastWait.at > lastWait.ms
    /\ lastWait.at <= lastWait.ms + TickMs

(* C26: SendRawCommand returns BufferTooSmall exactly when its wait        *)
(* succeeded and the response without CR LF is at least as long as the     *)
(* buffer; when it returns Ok the buffer holds the whole response line     *)
(* without CR LF, NUL-terminated; when the wait failed or the buffer was   *)
(* too small the buffer holds the empty string.  The line is the one the   *)
(* wait completed; when nothing but whole data frames was unread as the    *)
(* command was written, it is a line of the modem's reply to it.           *)
RawReturned ==
    ret.op = "SendRawCommand" /\ ret.rv \notin {"none", "InvalidArg", "Busy"}

IsLineOf(l, bytes) ==
    /\ \A i \in 1..Len(l) : l[i] \notin {CR, LF}
    /\ \E i \in 1..Len(bytes) :
          /\ i + Len(l) + 1 <= Len(bytes)
          /\ SubSeq(bytes, i, i + Len(l) + 1) = l \o CRLF
          /\ i = 1 \/ bytes[i - 1] = LF

C26_RawResponseBuffer ==
    RawReturned
       => /\ lastWait.waits = 1
          /\ ret.rv = "BufferTooSmall"
                <=> lastWait.rv = "Ok" /\ Len(lastWait.frame) >= ret.arg
          /\ lastWait.rv # "Ok" => ret.rv = lastWait.rv
          /\ ret.wrote
          /\ ret.rv = "Ok"
                => /\ lastWait.clean => IsLineOf(ret.out, script.bytes)
                   /\ ret.out = lastWait.frame
                   /\ Len(ret.out) + 1 <= ret.arg
          /\ ret.rv # "Ok" => ret.out = <<>>

C26_Witness ==
    /\ RawReturned
    /\ ret.rv = "BufferTooSmall"
    /\ ret.arg = Len(FrameFV)
    /\ lastWait.frame = FrameFV
    /\ ret.out = <<>>

C26_WitnessOk ==
    /\ RawReturned
    /\ ret.rv = "Ok"
    /\ ret.arg = Len(FrameFV) + 1
    /\ ret.out = FrameFV

(* C27: the cached mode changes only in the step in which begin returns Ok *)
(* (to the mode probed) or SetMode returns Ok (to the mode requested); a   *)
(* begin or a SetMode that returns Ok leaves the cache at that mode; a     *)
(* failing begin or SetMode and every step of every other operation,       *)
(* GetMode and TransmitData included, leave it as it was.                  *)
C27_ModeCache ==
    [][/\ m_mode' # m_mode
          => /\ ret'.rv = "Ok"
             /\ ret'.op = call.op
             /\ ret'.op \in {"begin", "SetMode"}
       /\ ret'.op = "begin" /\ ret'.rv = "Ok"
          => lastWait'.frame = FrameMO(m_mode')
       /\ ret'.op = "SetMode" /\ ret'.rv = "Ok"
          => m_mode' = ret'.arg
       /\ ret'.op \in {"begin", "SetMode"} /\ ret'.rv \notin {"Ok", "none"}
          => m_mode' = m_mode
       /\ ret'.op = "GetMode" /\ ret'.rv = "Ok"
          => m_mode' = m_mode /\ lastWait'.frame = FrameMO(ret'.val)]_vars

C27_Witness ==
    /\ ret.op = "begin"
    /\ ret.rv = "Ok"
    /\ m_mode = LoRaCmd
    /\ lastWait.frame = FrameMO(LoRaCmd)
    /\ tx = MLR_GET_MODE_STRING

C27_WitnessSetMode ==
    /\ ret.op = "SetMode"
    /\ ret.rv = "Ok"
    /\ m_mode = ret.arg

C27_WitnessGetMode ==
    /\ ret.op = "GetMode"
    /\ ret.rv = "Ok"
    /\ ret.val # m_mode

C27_WitnessBeginFails ==
    /\ ret.op = "begin"
    /\ ret.rv = "Fail"
    /\ lastWait.frame = WrongFrame

(* C28: TransmitDataFireAndForget returns Ok only when a well-formed *DT=  *)
(* echo equal to len was received, and exactly then it arms the pending    *)
(* expectation MLR_Modem_DtIr, after one wait and without waiting for the  *)
(* information response; when it returns an error nothing is pending.  The *)
(* expectation stays armed until Work() completes a command frame, and     *)
(* that frame is handed to the callback as MLR_Modem_DtIr with the decoded *)
(* *IR value.                                                              *)
FireReturned ==
    /\ ret.op = "TransmitDataFireAndForget"
    /\ ret.rv \notin {"none", "Busy", "InvalidArg"}

NoInfoEntry ==
    \/ cbLog' = cbLog
    \/ /\ Len(cbLog') = Len(cbLog) + 1
       /\ SubSeq(cbLog', 1, Len(cbLog)) = cbLog
       /\ cbLog'[Len(cbLog')].kind = "DataReceived"

C28_WitnessArmed ==
    /\ FireReturned
    /\ ret.rv = "Ok"
    /\ EchoMatched
    /\ m_asyncExpectedResponse = "MLR_Modem_DtIr"

C28_WitnessError ==
    /\ FireReturned
    /\ ret.rv = "Fail"
    /\ lastWait.rv = "Ok"
    /\ m_asyncExpectedResponse = "Idle"

(* C29: in state Start a byte other than '*' never produces Garbage.  The  *)
(* call of m_Parse that reads it returns Parsing, discards the available   *)
(* bytes up to but not including the next '*', keeps that '*' (if there is *)
(* one) as the lookahead byte, and leaves the state Start; the lookahead   *)
(* '*' is then the first byte of the frame the next call reads.            *)
HasStar(s) == \E i \in 1..Len(s) : s[i] = STAR

FirstStar(s) ==
    CHOOSE i \in 1..Len(s) : s[i] = STAR /\ \A j \in 1..(i - 1) : s[j] # STAR

C29_StartSkipsNoise ==
    [][/\ (ParseCall /\ m_parserState = "Start" /\ m_oneByteBuf = -1
                     /\ Head(uart) # STAR)
          => /\ lastRet' = "Parsing"
             /\ events' = events
             /\ m_parserState' = "Start"
             /\ \E rest \in {Tail(uart)} :
                   IF HasStar(rest)
                   THEN /\ m_oneByteBuf' = STAR
                        /\ uart' = SubSeq(rest, FirstStar(rest) + 1, Len(rest))
                   ELSE /\ m_oneByteBuf' = -1
                        /\ uart' = <<>>
             /\ UNCHANGED <<m_drMessagePresent, m_drMessageLen, m_drMessage>>
       /\ (ParseCall /\ m_parserState = "Start" /\ m_oneByteBuf = STAR)
          => /\ m_oneByteBuf' = -1 \/ lastRet' = "Garbage"
             /\ m_parserState' # "Start" \/ lastRet' # "Parsing"]_vars

C29_Witness ==
    /\ script.kind = "noise"
    /\ m_parserState = "Start"
    /\ m_oneByteBuf = STAR
    /\ lastRet = "Parsing"
    /\ events = <<>>
    /\ uart \o wire = Tail(FollowFrame) \o CRLF

C29_WitnessFrameFollows ==
    /\ script.kind = "noise"
    /\ events = <<"FinishedCmdResponse">>
    /\ RxPrefix(m_rxIdx) = FollowFrame

(* C30: every return of Garbage or Overflow from m_Parse leaves            *)
(* m_parserState = Start, whatever the cause: a first or second letter     *)
(* that is not upper case, a fourth byte that is not '=', a data length    *)
(* digit that is not hexadecimal, a data frame not ended by CR LF, an LF   *)
(* or a '*' before the CR, a byte other than LF after the CR, or a full    *)
(* receive buffer.                                                         *)
C30_ErrorReturnsToStart ==
    [][ParseCall /\ lastRet' \in {"Garbage", "Overflow"}
          => m_parserState' = "Start"]_vars

C30_Witness ==
    /\ script.kind = "broken"
    /\ lastRet = "Garbage"
    /\ events = <<"Garbage">>
    /\ m_parserState = "Start"

C30_WitnessOverflow ==
    /\ script.kind = "cmd"
    /\ lastRet = "Overflow"
    /\ m_parserState = "Start"

C31_WitnessBefore ==
    /\ lastRet = "FinishedCmdResponse"
    /\ script.frames = <<FrameCH(10)>>
    /\ ret.op = "m_HandleMessageHexByte"
    /\ ret.rv = "Ok"
    /\ ret.val = 10

(* C32: a command frame that completes in Work() while nothing is pending  *)
(* is dropped: the callback is not invoked, the expectation stays Idle,    *)
(* the parser is in Start with no lookahead, and nothing an operation      *)
(* called later depends on (mode, callback, timer, stored packet, call in  *)
(* progress) has changed.                                                  *)
C32_UnexpectedFrameDropped ==
    [][(m_asyncExpectedResponse = "Idle" /\ lastRet' = "FinishedCmdResponse" /\ Work)
          => /\ cbLog' = cbLog
             /\ m_asyncExpectedResponse' = "Idle"
             /\ m_parserState' = "Start"
             /\ m_oneByteBuf' = -1
             /\ ret' = NoRet
             /\ UNCHANGED <<m_mode, m_pCallback, bTimeout, timeOut, elapsed, tx,
                            call, calls, wire, m_drMessagePresent, m_drMessageLen,
                            m_drMessage>>]_vars

C32_Witness ==
    /\ lastRet = "FinishedCmdResponse"
    /\ m_asyncExpectedResponse = "Idle"
    /\ m_pCallback
    /\ cbLog = <<>>
    /\ call.op = "none"
    /\ tx = MLR_GET_CHANNEL_STRING
    /\ lastWait.ev = "timeout"
    /\ RxPrefix(m_rxIdx) = FrameCH(10)
    /\ m_parserState = "Start"

(* C33: FactoryReset returns Ok only if the first command frame completed  *)
(* in the call is exactly *WR=PS and the second exactly *IZ=OK, in that    *)
(* order; any other first or second frame, *IZ=NG included, gives Fail,    *)
(* and after a first frame that does not match no second frame is awaited. *)
ResetReturned == ret.op = "FactoryReset" /\ ret.rv \notin {"none", "Busy"}

C33_FactoryResetSequence ==
    ResetReturned
       => /\ ret.rv \in {"Ok", "Fail"}
          /\ ret.rv = "Ok"
                <=> lastWait.got = <<MLR_WRITE_VALUE_RESPONSE_PREFIX,
                                     MLR_SET_IZ_RESPONSE_PREFIX_OK>>
          /\ lastWait.waits \in {1, 2}
          /\ Len(lastWait.got) <= lastWait.waits
          /\ lastWait.got = <<>> \/ lastWait.got[1] # MLR_WRITE_VALUE_RESPONSE_PREFIX
                => lastWait.waits = 1
          /\ lastWait.waits = 2 => lastWait.got[1] = MLR_WRITE_VALUE_RESPONSE_PREFIX

C33_Witness ==
    /\ ResetReturned
    /\ ret.rv = "Fail"
    /\ lastWait.got = <<MLR_WRITE_VALUE_RESPONSE_PREFIX, FrameIZNG>>

C33_WitnessOk ==
    /\ ResetReturned
    /\ ret.rv = "Ok"
    /\ lastWait.waits = 2

C33_WitnessFirst ==
    /\ ResetReturned
    /\ ret.rv = "Fail"
    /\ lastWait.got = <<MLR_SET_IZ_RESPONSE_PREFIX_OK>>
    /\ lastWait.waits = 1

(* C34: the parser never blocks on malformed input.  Every call of m_Parse *)
(* with bytes available takes at least one byte from the transport, so the *)
(* calls return and every byte of a finite input is consumed; and when a   *)
(* well-formed frame follows the malformed bytes, the parser is back in    *)
(* step in time to report that frame complete.                             *)
ParseProgress == ParseCall => Len(uart') < Len(uart)

FollowReported ==
    /\ events # <<>>
    /\ events[Len(events)] = "FinishedCmdResponse"
    /\ RxPrefix(m_rxIdx) = script.frame
    /\ m_parserState = "Start"

C34_ParserNeverBlocks ==
    [][/\ ParseProgress
       /\ (script.kind \in {"inject", "noise", "broken"} /\ AllConsumed)'
             => FollowReported']_vars

C34_Progress == [][ParseProgress]_vars

(* C35: the lookahead invariant.  Between calls of m_Parse the lookahead   *)
(* byte is empty or holds '*', and it is non-empty only in the state       *)
(* Start; the next m_ReadByte returns it, empties it and leaves the        *)
(* transport alone; and m_UnreadByte has never been called while a byte    *)
(* was still buffered.                                                     *)
C35_LookaheadInvariant ==
    /\ m_oneByteBuf \in {-1, STAR}
    /\ m_oneByteBuf # -1 => m_parserState = "Start"
    /\ m_oneByteBuf # -1
          => \E r \in {m_ReadByte(PState)} :
                r.b = STAR /\ r.p.buf = -1 /\ r.p.uart = uart
    /\ ~unreadOver

C35_Witness ==
    /\ m_oneByteBuf = STAR
    /\ m_parserState = "Start"
    /\ lastRet = "Garbage"
    /\ script.kind = "inject"
    /\ uart # <<>>

C35_WitnessConsumed ==
    /\ script.kind = "inject"
    /\ events = <<"Garbage", "FinishedCmdResponse">>
    /\ m_oneByteBuf = -1
    /\ RxPrefix(m_rxIdx) = FollowFrame

(* C36: the buffer bounds.  Whatever bytes arrive, m_Parse has stored into *)
(* m_rxMessage at indices 0..31 only and into m_drMessage at indices       *)
(* 0..256 only, which is below the capacity of 300.  In the command states *)
(* m_rxIdx is the index of the next store into m_rxMessage and lies inside *)
(* it; in RadioDrPayload it counts the payload bytes stored so far, which  *)
(* lie in m_drMessage from index 0 on.                                     *)
CmdStates ==
    {"ReadCmdFirstLetter", "ReadCmdSecondLetter", "ReadCmdParam", "RadioDrSize",
     "ReadCmdUntilCR", "ReadCmdUntilLF"}

C36_BufferBounds ==
    /\ rxHigh \in -1..(RxSize - 1)
    /\ drHigh \in -1..256
    /\ 256 < DrSize
    /\ m_rxIdx >= 0
    /\ m_parserState \in CmdStates => m_rxIdx \in 1..(RxSize - 1)
    /\ m_parserState = "RadioDrPayload"
          => /\ m_rxIdx \in 0..(m_drMessageLen + 1)
             /\ script.kind = "dr"
                   => /\ m_rxIdx = Consumed - 6
                      /\ DrPrefix(m_rxIdx)
                            = SubSeq(ScriptBytes(script), 7, 6 + m_rxIdx)

C36_Witness ==
    /\ script.kind = "dr"
    /\ lastRet = "FinishedDrResponse"
    /\ m_drMessageLen = 255
    /\ drHigh = 256

C36_WitnessCmd ==
    /\ script.kind = "cmd"
    /\ m_parserState = "ReadCmdUntilLF"
    /\ m_rxIdx = RxSize - 1
    /\ rxHigh = RxSize - 2

C36_WitnessPayload ==
    /\ script.kind = "dr"
    /\ m_parserState = "RadioDrPayload"
    /\ m_rxIdx = 256

(* C37: whenever m_drMessagePresent is true the parser is not in           *)
(* RadioDrPayload, and m_drMessage[0..m_drMessageLen) and m_drMessageLen   *)
(* are the payload and the declared length of the last data frame of the   *)
(* stream that has completed; while the packet stays present, a step that  *)
(* does not complete a data frame leaves the data buffer and the length as *)
(* they are.                                                               *)
DataOf(x) ==
    IF x = DrFrame(Payload1) THEN <<Payload1>>
    ELSE IF x = DrFrame(Payload2) THEN <<Payload2>>
    ELSE <<>>

(* The payloads of the complete data frames of the stream b, in order.     *)
StreamData(b) ==
    IF b \in StreamItems THEN DataOf(b)
    ELSE LET d == CHOOSE d \in {Payload1, Payload2} \X StreamItems :
                     b = DrFrame(d[1]) \o d[2]
         IN <<d[1]>> \o DataOf(d[2])

PacketIsLastFrame ==
    HasPacket
       => /\ m_parserState # "RadioDrPayload"
          /\ Len(cbLog) \in 1..Len(StreamData(script.bytes))
          /\ DrOf(PState) = StreamData(script.bytes)[Len(cbLog)]
          /\ m_drMessageLen = Len(StreamData(script.bytes)[Len(cbLog)])

C37_PresentPacketIntact ==
    [][/\ PacketIsLastFrame'
       /\ (HasPacket /\ HasPacket' /\ ~(Work /\ lastRet' = "FinishedDrResponse"))
            => UNCHANGED <<m_drMessage, m_drMessageLen>>]_vars

C37_Witness ==
    /\ HasPacket
    /\ script.bytes = DrFrame(Payload1) \o DrFrame(Payload2)
    /\ Len(cbLog) = 2
    /\ DrOf(PState) = Payload2
    /\ m_drMessageLen = 1

C37_WitnessCleared ==
    /\ ~HasPacket
    /\ m_parserState = "RadioDrPayload"
    /\ Len(cbLog) = 1
    /\ ret = NoRet

C37_WitnessKept ==
    /\ HasPacket
    /\ script.bytes = DrFrame(Payload1) \o Lines(<<FrameCH(10)>>)
    /\ lastRet = "FinishedCmdResponse"
    /\ DrOf(PState) = Payload1

(* C38: whenever m_Parse returns FinishedCmdResponse the captured frame    *)
(* has 4 <= m_rxIdx <= 30, m_rxMessage[0] = '*', upper-case letters in     *)
(* m_rxMessage[1] and m_rxMessage[2], '=' in m_rxMessage[3] and no '*', CR *)
(* or LF in m_rxMessage[4..m_rxIdx-1]; the parser is in Start and the      *)
(* lookahead is empty.                                                     *)
FrameShape ==
    /\ m_rxIdx \in 4..30
    /\ m_rxMessage[0] = STAR
    /\ isupper(m_rxMessage[1])
    /\ isupper(m_rxMessage[2])
    /\ m_rxMessage[3] = EQ
    /\ \A i \in 4..(m_rxIdx - 1) : m_rxMessage[i] \notin {STAR, CR, LF}
    /\ m_parserState = "Start"
    /\ m_oneByteBuf = -1

C38_CompletedFrameShape ==
    [][ParseCall /\ lastRet' = "FinishedCmdResponse" => FrameShape']_vars

C38_Witness ==
    /\ lastRet = "FinishedCmdResponse"
    /\ script.kind = "cmd"
    /\ m_rxIdx = 30
    /\ m_rxMessage[4] = 0
    /\ m_rxMessage[5] = EQ

C38_WitnessShortest ==
    /\ lastRet = "FinishedCmdResponse"
    /\ script.kind = "cmd"
    /\ m_rxIdx = 4

C38_WitnessAfterGarbage ==
    /\ lastRet = "FinishedCmdResponse"
    /\ script.kind = "inject"
    /\ script.pre = <<STAR, 67, 72, EQ, 48>>
    /\ RxPrefix(m_rxIdx) = FollowFrame

(* C39: a synchronous get operation returns Ok only from a command frame   *)
(* of the modem's reply to its own request.  With no Work() between the    *)
(* operations, the frame and its CR LF that end the wait of a GetChannel   *)
(* returning Ok are bytes of the reply to that GetChannel, not of the      *)
(* reply to an earlier request that had timed out.                         *)
OwnReplyRead ==
    /\ Len(uart) + Len(wire) + Len(lastWait.frame) + 2 <= Len(script.bytes)
    /\ \E i \in 1..Len(script.frames) : script.frames[i] = lastWait.frame

C39_OnlyOwnReply ==
    (ret.op = "GetChannel" /\ ret.rv = "Ok") => OwnReplyRead

C39_OwnReplyReturned ==
    /\ ret.op = "GetChannel"
    /\ ret.rv = "Ok"
    /\ ret.val = 10
    /\ OwnReplyRead
    /\ calls = 1

(* C40: each call of Work() handles one result of m_Parse and invokes the  *)
(* callback at most once.  A completed data frame is handed to the         *)
(* registered callback as (Ok, DataReceived, payload, length), whether or  *)
(* not an expectation is pending, and the pending expectation stays as it  *)
(* is; Garbage, Overflow and Parsing invoke no callback and leave the      *)
(* pending expectation as it is.                                           *)
C40_WorkOneEvent ==
    [][(call.op = "none" /\ ret' = NoRet /\ tx' = tx /\ wire' = wire /\ Work)
          => /\ lastRet' \in {"Parsing", "Garbage", "Overflow",
                            "FinishedCmdResponse", "FinishedDrResponse"}
             /\ events' = events
             /\ Len(cbLog') \in {Len(cbLog), Len(cbLog) + 1}
             /\ SubSeq(cbLog', 1, Len(cbLog)) = cbLog
             /\ lastRet' = "FinishedDrResponse"
                   => /\ m_asyncExpectedResponse' = m_asyncExpectedResponse
                      /\ m_drMessagePresent'
                      /\ IF m_pCallback
                         THEN cbLog' = Append(cbLog,
                                 CbEntry("Ok", "DataReceived", 0,
                                         DrPrefix(m_drMessageLen)', m_drMessageLen'))
                         ELSE cbLog' = cbLog
             /\ lastRet' \in {"Garbage", "Overflow", "Parsing"}
                   => /\ cbLog' = cbLog
                      /\ m_asyncExpectedResponse' = m_asyncExpectedResponse]_vars

C40_Witness ==
    /\ lastRet = "FinishedDrResponse"
    /\ call.op = "none"
    /\ ret = NoRet
    /\ m_asyncExpectedResponse # "Idle"
    /\ cbLog # <<>>
    /\ cbLog[Len(cbLog)] = CbEntry("Ok", "DataReceived", 0, Payload1, Len(Payload1))

C40_WitnessIdle ==
    /\ lastRet = "FinishedDrResponse"
    /\ call.op = "none"
    /\ ret = NoRet
    /\ m_asyncExpectedResponse = "Idle"
    /\ Len(cbLog) = 1
    /\ cbLog[1].kind = "DataReceived"

C40_WitnessGarbage ==
    /\ lastRet = "Garbage"
    /\ call.op = "none"
    /\ ret = NoRet
    /\ m_asyncExpectedResponse # "Idle"
    /\ m_pCallback
    /\ cbLog = <<>>

C40_WitnessOverflow ==
    /\ lastRet = "Overflow"
    /\ call.op = "none"
    /\ ret = NoRet
    /\ m_asyncExpectedResponse # "Idle"
    /\ m_pCallback

====
